---- MODULE Spec2Model ----
(***************************************************************************)
(* Model of the procedural world builder, core/procedural_engine.py:       *)
(* ProceduralEngine.build and the stages it sequences.                     *)
(*                                                                         *)
(* Arithmetic is exact rational arithmetic over integers; every quantity   *)
(* the code holds as a float is held as a numerator over a denominator     *)
(* that is stated where the quantity is defined.  The rounding of float32  *)
(* and float64 is not modelled.                                            *)
(*   - lengths of the schema are in metres, schema.scale_km is held in     *)
(*     tenths of a kilometre (scale10), so size = scale_km*1000 is         *)
(*     scale10*100 metres;                                                 *)
(*   - grid coordinates i*step with step = size/(R-1) are held multiplied  *)
(*     by R-1 (node i is at i*size), and every length compared with them   *)
(*     is multiplied by R-1 as well;                                       *)
(*   - raw noise is held in units of the normalisation epsilon (1e-6).     *)
(***************************************************************************)
EXTENDS Integers, Sequences, FiniteSets, TLC

VARIABLES
    grid_resolution,  \* ProceduralEngine.grid_resolution, the engine's only state
    schema,           \* schema[b]: the WorldSchema argument of build call b
    seedArg,          \* seedArg[b]: the seed argument, <<>> for None, <<s>> for s
    pc,               \* pc[b]: position of build call b in ProceduralEngine.build,
                      \* "done" once it has returned, "error" once it has raised
    rng,              \* rng[b]: the call's random.Random: [seed, used]
    heightmap,        \* heightmap[b]: the call's grid, [den, cells], <<>> before it exists
    cursor,           \* cursor[b]: loop positions [spline, rule, inst, object_idx]
    meshes,           \* meshes[b]: the local list `meshes`
    layout_objects,   \* layout_objects[b]: the local list `layout_objects`
    result,           \* result[b]: the returned WorldBuildResult, <<>> before return
    sched,            \* how the callers run the calls: "sequential" or "interleaved"
    module_random,    \* the generator of the process-wide random module: [seed, used]
    lookup,           \* a vegetation position and the grid indices looked up for it
    fallback_schema,  \* a call of generate_world_schema whose LLM path failed
    fallback_spec,    \* fallback_spec[t]: thread t's call of _fallback_spec
    ribbon            \* a call of _build_spline_mesh: its spline and what it returned

vars == <<grid_resolution, schema, seedArg, pc, rng, heightmap, cursor, meshes,
          layout_objects, result, sched, module_random,
                   lookup, fallback_schema, fallback_spec, ribbon>>

(***************************************************************************)
(* Bounds of the model.                                                    *)
(***************************************************************************)
MaxRes == 3        \* grid resolutions 2..MaxRes
MaxSeed == 1       \* explicit seed arguments 0..MaxSeed
UDen == 8          \* random() returns u/UDen, u in 0..UDen-1
NoiseMax == 3      \* pnoise2 returns -NoiseMax..NoiseMax (units of 1e-6)
MaxModuleDraws == 1  \* draws on the random module between two of its reseedings

Builds == {1, 2}

(***************************************************************************)
(* Program constants.                                                      *)
(***************************************************************************)
MAX_VEGETATION_INSTANCES == 4000
Eps == 1           \* the 1e-6 of the normalisation, in units of 1e-6
CarveDen == 10     \* elevations carry a factor 10 so that depth * 0.3 is exact

(***************************************************************************)
(* Small helpers.                                                          *)
(***************************************************************************)
Min(a, b) == IF a <= b THEN a ELSE b
Max(a, b) == IF a >= b THEN a ELSE b
Abs(a) == IF a >= 0 THEN a ELSE -a

RECURSIVE Pow(_, _)
Pow(a, n) == IF n = 0 THEN 1 ELSE a * Pow(a, n - 1)

RECURSIVE SumTo(_, _)
\* f[0] + ... + f[n-1]
SumTo(f, n) == IF n = 0 THEN 0 ELSE f[n - 1] + SumTo(f, n - 1)

SetMin(S) == CHOOSE m \in S : \A x \in S : m <= x
SetMax(S) == CHOOSE m \in S : \A x \in S : m >= x

RECURSIVE ISqrtIter(_, _)
ISqrtIter(n, r) ==
    LET r2 == (r + n \div r) \div 2
    IN IF r2 >= r THEN r ELSE ISqrtIter(n, r2)

\* the integer square root (exact on the perfect squares the splines' segments give)
ISqrt(n) == IF n = 0 THEN 0 ELSE ISqrtIter(n, n)

(***************************************************************************)
(* random.Random(seed): a deterministic stream; the k-th value drawn from  *)
(* a generator depends on its seed and on k alone.                         *)
(***************************************************************************)
DrawU(seed, k) ==
    (((seed + 1) * ((k % 61) + 7) * 31 + seed * 17 + (k % 59) * (k % 59) * 3 + 11) % 61) % UDen

\* rng.uniform(a, b) = a + (b - a) * random(), as a numerator over UDen
Uniform(a, b, u) == a * UDen + (b - a) * u

\* rng.randint(0, n) from one draw
RandInt(n, u) == (u * (n + 1)) \div UDen

\* `seed or schema.heightmap.seed`: None and 0 are both falsy
SeedChoice(arg, schemaSeed) ==
    IF arg = <<>> \/ arg[1] = 0 THEN schemaSeed ELSE arg[1]

(***************************************************************************)
(* _generate_heightmap                                                     *)
(***************************************************************************)
\* pnoise2(x, y, base): gradient noise, zero on the integer lattice.  The point
\* is (xn/den, yn/den).
Pnoise2(xn, yn, den, base) ==
    IF xn % den = 0 /\ yn % den = 0 THEN 0
    ELSE ((xn * 13 + yn * 29 + base * 5 + xn * yn) % (2 * NoiseMax + 1)) - NoiseMax

\* the factor the raw sum carries: persistence is held in halves
RawDen(cfg) == Pow(2, cfg.octaves - 1)

\* the inner octave loop for node (i, j): sum of pnoise2(x*freq, y*freq) * amp with
\* x = i/(R-1), freq = frequency * lacunarity^k, amp = amplitude * persistence^k;
\* the result is the raw elevation times RawDen(cfg)
RawElevation(cfg, R, i, j) ==
    LET den == 10 * (R - 1)
        term == [k \in 0..(cfg.octaves - 1) |->
                   Pnoise2(i * cfg.frequency10 * Pow(cfg.lacunarity, k),
                           j * cfg.frequency10 * Pow(cfg.lacunarity, k),
                           den, cfg.seed)
                   * cfg.amplitude * Pow(cfg.persistence2, k)
                   * Pow(2, cfg.octaves - 1 - k)]
    IN SumTo(term, cfg.octaves)

\* the normalisation without the subtraction of the minimum
NormNumNoMin(raw, mn) == raw

\* hm = (hm - hm.min()) / (hm.max() - hm.min() + 1e-6): numerator and denominator
NormNum(raw, mn) == raw - mn

\* the denominator without the 1e-6
NormDenNoEpsilon(cfg, mn, mx) == mx - mn

NormDen(cfg, mn, mx) == (mx - mn) + Eps * RawDen(cfg)

\* hm = hm * elevation_scale + base_height, as a numerator over den * CarveDen
Rescale(cfg, num, den) == CarveDen * (num * cfg.elevation_scale + cfg.base_height * den)

GenerateHeightmap(sch, R) ==
    LET cfg == sch.heightmap
        raw == [i \in 0..(R - 1) |-> [j \in 0..(R - 1) |-> RawElevation(cfg, R, i, j)]]
        all == {raw[i][j] : i \in 0..(R - 1), j \in 0..(R - 1)}
        mn == SetMin(all)
        mx == SetMax(all)
        den == NormDen(cfg, mn, mx)
    IN [den |-> den * CarveDen,
        cells |-> [i \in 0..(R - 1) |-> [j \in 0..(R - 1) |->
                     Rescale(cfg, NormNum(raw[i][j], mn), den)]]]

\* heightmap.shape[0]
Res(hm) == Cardinality(DOMAIN hm.cells)

\* schema.scale_km * 1000
SizeM(sch) == sch.scale10 * 100

(***************************************************************************)
(* _carve_spline                                                           *)
(***************************************************************************)
\* LineString([(p[0], p[2]) for p in control_points]), multiplied by k
Line2D(spline, k) ==
    [n \in 1..Len(spline.control_points) |->
        <<spline.control_points[n][1] * k, spline.control_points[n][3] * k>>]

\* The part of line.buffer(w, cap_style=2, join_style=2) that the segment p-q gives:
\* the open rectangle of half-width w around the segment, ending flat at an end of
\* the polyline (ext = 0) and running on by w past an interior joint (ext = w),
\* which with the next segment's rectangle makes the mitred corner.
SegContains(px, pz, p, q, w, ext0, ext1) ==
    LET dx == q[1] - p[1]
        dz == q[2] - p[2]
        len == ISqrt(dx * dx + dz * dz)
        dot == (px - p[1]) * dx + (pz - p[2]) * dz
        cross == (px - p[1]) * dz - (pz - p[2]) * dx
    IN /\ len > 0
       /\ dot > -(ext0 * len)
       /\ dot < len * len + ext1 * len
       /\ Abs(cross) < w * len

\* buffer.contains(Point(x, y)): the interior of the buffered polyline.  Exact for
\* polylines whose interior joints are straight or right-angled and whose segments
\* are longer than the width (the splines of SplineLists).
BufferContains(px, pz, line, w) ==
    \E n \in 1..(Len(line) - 1) :
        SegContains(px, pz, line[n], line[n + 1], w,
                    IF n = 1 THEN 0 ELSE w,
                    IF n = Len(line) - 1 THEN 0 ELSE w)

\* whether node (i, j) of an R x R grid over sch lies in the spline's corridor
InCorridor(sch, R, spline, i, j) ==
    BufferContains(i * SizeM(sch), j * SizeM(sch), Line2D(spline, R - 1),
                   spline.width * (R - 1))

\* what one node inside the corridor loses, as a numerator over den
CutRoad(spline, den) == (spline.depth * 3 * den) \div CarveDen
\* the river's cut with its sign turned, heightmap[i, j] += depth
CutRiverRaised(spline, den) == -(spline.depth * den)
CutRiver(spline, den) == spline.depth * den
\* the two kinds taking each other's cut
CutKindsSwapped(spline, den) ==
    IF spline.kind = "river" THEN CutRoad(spline, den) ELSE CutRiver(spline, den)
Cut(spline, den) ==
    IF spline.kind = "river" THEN CutRiver(spline, den) ELSE CutRoad(spline, den)

\* the cut taken from the generated elevation, not from the current one: a node
\* is never lower than its generated elevation less one cut
CarveSplineNoCompound(hm, sch, spline) ==
    LET R == Res(hm)
        generated == GenerateHeightmap(sch, R)
    IN [hm EXCEPT !.cells =
          [i \in 0..(R - 1) |-> [j \in 0..(R - 1) |->
              IF InCorridor(sch, R, spline, i, j)
              THEN Min(hm.cells[i][j], generated.cells[i][j] - Cut(spline, hm.den))
              ELSE hm.cells[i][j]]]]

\* the test buffer.contains(...) left out: every node is lowered
CarveSplineWholeGrid(hm, sch, spline) ==
    LET R == Res(hm)
    IN [hm EXCEPT !.cells =
          [i \in 0..(R - 1) |-> [j \in 0..(R - 1) |->
              hm.cells[i][j] - Cut(spline, hm.den)]]]

CarveSpline(hm, sch, spline) ==
    LET R == Res(hm)
    IN [hm EXCEPT !.cells =
          [i \in 0..(R - 1) |-> [j \in 0..(R - 1) |->
              IF InCorridor(sch, R, spline, i, j)
              THEN hm.cells[i][j] - Cut(spline, hm.den)
              ELSE hm.cells[i][j]]]]

(***************************************************************************)
(* _build_terrain_mesh                                                     *)
(***************************************************************************)
\* vertices.append((i * step, heightmap[i, j], j * step)), i outer, j inner
TerrainVertices(hm, sch) ==
    LET R == Res(hm)
    IN [n \in 1..(R * R) |->
          LET i == (n - 1) \div R
              j == (n - 1) % R
          IN <<i * SizeM(sch), hm.cells[i][j], j * SizeM(sch)>>]

\* one triangle per cell: the second append left out
TerrainFacesHalf(R) ==
    [n \in 1..((R - 1) * (R - 1)) |->
        LET i == (n - 1) \div (R - 1)
            j == (n - 1) % (R - 1)
            a == i * R + j
        IN <<a, a + R, a + 1>>]

\* the second triangle of every cell turned round: (b, d, c)
TerrainFacesSecondTurned(R) ==
    [n \in 1..(2 * (R - 1) * (R - 1)) |->
        LET cell == (n - 1) \div 2
            i == cell \div (R - 1)
            j == cell % (R - 1)
            a == i * R + j
            b == a + 1
            c == a + R
            d == c + 1
        IN IF (n - 1) % 2 = 0 THEN <<a, c, b>> ELSE <<b, d, c>>]

\* faces.append((a, c, b)); faces.append((b, c, d)) for every cell, i outer, j inner
TerrainFaces(R) ==
    [n \in 1..(2 * (R - 1) * (R - 1)) |->
        LET cell == (n - 1) \div 2
            i == cell \div (R - 1)
            j == cell % (R - 1)
            a == i * R + j
            b == a + 1
            c == a + R
            d == c + 1
        IN IF (n - 1) % 2 = 0 THEN <<a, c, b>> ELSE <<b, c, d>>]

BuildTerrainMesh(hm, sch) ==
    [vertices |-> TerrainVertices(hm, sch), faces |-> TerrainFaces(Res(hm))]

(***************************************************************************)
(* _place_object                                                           *)
(***************************************************************************)
\* (cos, sin) of the angle, times 5: rng.uniform(0, 2*pi) falls on one of eight
\* directions whose cosine and sine are rational
Directions ==
    << <<5, 0>>, <<4, 3>>, <<0, 5>>, <<-3, 4>>, <<-5, 0>>, <<-4, -3>>, <<0, -5>>, <<3, -4>> >>
CosSin5(u) == Directions[((u * 8) \div UDen) + 1]

\* positions are numerators over PosDen, scales over ScaleDen
PosDen == 50 * UDen
ScaleDen == 10 * UDen

\* the radius drawn from the whole disc, uniform(0, scatter_radius)
PlaceRadiusFromCentre(rule, u) == Uniform(0, 5 * rule.scatter_radius, u)

\* rng.uniform(scatter_radius * 0.4, scatter_radius), a numerator over 5 * UDen
PlaceRadius(rule, u) == Uniform(2 * rule.scatter_radius, 5 * rule.scatter_radius, u)

\* x = size_m / 2 + math.cos(theta) * radius (z with the sine), over PosDen
PlaceCoord(size_m, cs5, radius) == 25 * UDen * size_m + 2 * cs5 * radius

\* the height drawn before the scale: theta, radius, height, scale
PlaceObjectHeightFirst(rule, size_m, seed, k) ==
    LET cs == CosSin5(DrawU(seed, k))
        radius == PlaceRadius(rule, DrawU(seed, k + 1))
        height == Uniform(rule.height_range[1], rule.height_range[2], DrawU(seed, k + 2))
        scale == Uniform(rule.scale_range10[1], rule.scale_range10[2], DrawU(seed, k + 3))
    IN [pos |-> <<PlaceCoord(size_m, cs[1], radius), 0, PlaceCoord(size_m, cs[2], radius)>>,
        scale |-> <<scale, height, scale>>]

\* the four draws theta, radius, scale, height, from draw number k of the generator
PlaceObject(rule, size_m, seed, k) ==
    LET cs == CosSin5(DrawU(seed, k))
        radius == PlaceRadius(rule, DrawU(seed, k + 1))
        scale == Uniform(rule.scale_range10[1], rule.scale_range10[2], DrawU(seed, k + 2))
        height == Uniform(rule.height_range[1], rule.height_range[2], DrawU(seed, k + 3))
    IN [pos |-> <<PlaceCoord(size_m, cs[1], radius), 0, PlaceCoord(size_m, cs[2], radius)>>,
        scale |-> <<scale, height, scale>>]

(***************************************************************************)
(* _make_structure                                                         *)
(***************************************************************************)
\* the hub left out of the metal kinds
MaterialHubConcrete(kind) == IF kind \in {"tower", "spire"} THEN "metal" ELSE "concrete"

Material(kind) == IF kind \in {"tower", "spire", "hub"} THEN "metal" ELSE "concrete"

\* The lowest and the highest y of the mesh of a kind as assembled around the
\* origin, before the translation: <<ymin, ymax>>, numerators over 300 * ScaleDen,
\* for scale[0] = s / ScaleDen and scale[1] = h / ScaleDen.
\*   - trimesh.creation.cylinder has its axis along z, so a cylinder of radius r
\*     moved up by t spans [t - r, t + r] in y (the section counts 16, 8 and 32
\*     put a vertex at the top and at the bottom of the circle);
\*   - a box of y-extent e spans [-e/2, e/2];
\*   - icosphere(radius) spans [-radius, radius], and slice_plane with the normal
\*     (0, -1, 0) keeps the side the normal points to, y <= 0.
StructureYBounds(kind, s, h) ==
    CASE kind \in {"tower", "spire"} ->
            <<SetMin({1000 * h * i - 21 * s * (100 - 15 * i) : i \in 0..2}),
              SetMax({1000 * h * i + 21 * s * (100 - 15 * i) : i \in 0..2})>>
      [] kind = "bridge" ->
            <<Min(-300 * h, -1200 * h - 600 * s), Max(300 * h, -1200 * h + 600 * s)>>
      [] kind = "dome" -> <<-4500 * s, 0>>
      [] kind = "hangar" -> <<-900 * h, 1500 * h>>
      [] kind = "hub" ->
            <<SetMin({-4500 * s, 1050 * h - 3600 * s, 2100 * h - 2400 * s}),
              SetMax({4500 * s, 1050 * h + 3600 * s, 2100 * h + 2400 * s})>>
      [] OTHER -> <<-750 * h, 750 * h>>

\* mesh.apply_translation(position + [0, mesh.extents[1] * 0.5, 0]): the y-span
\* <<lowest, highest>> of the translated mesh, numerators over 600 * ScaleDen
\* (= 120 * PosDen, the denominator of the position)
GroundedYSpan(kind, pos, scale) ==
    LET yb == StructureYBounds(kind, scale[1], scale[2])
        extent == yb[2] - yb[1]
    IN <<120 * pos[2] + 2 * yb[1] + extent, 120 * pos[2] + 2 * yb[2] + extent>>

\* MeshAsset(name=f"{kind}_{idx}", ...): the name is held as the pair <<kind, idx>>
MakeStructure(rule, pos, scale, idx) ==
    [name |-> <<rule.kind, idx>>, kind |-> rule.kind, material |-> Material(rule.kind),
     mesh |-> [position |-> pos, scale |-> scale,
               yspan |-> GroundedYSpan(rule.kind, pos, scale)]]

(***************************************************************************)
(* _build_spline_mesh                                                      *)
(***************************************************************************)
\* line.length
LineLength(line) ==
    LET seg == [n \in 0..(Len(line) - 2) |->
                  ISqrt((line[n + 2][1] - line[n + 1][1]) * (line[n + 2][1] - line[n + 1][1])
                        + (line[n + 2][2] - line[n + 1][2]) * (line[n + 2][2] - line[n + 1][2]))]
    IN SumTo(seg, Len(line) - 1)

\* the 1e-6 added to length_vec, as its inverse
LengthEpsInv == 1000000

RECURSIVE GCD(_, _)
GCD(a, b) == IF b = 0 THEN a ELSE GCD(b, a % b)

\* segment k of the line, from line[k] to line[k + 1]: its length, and its
\* direction <<ex, ez>> / len in lowest terms as <<dx, dz, ul>>
SegLength(line, k) ==
    ISqrt((line[k + 1][1] - line[k][1]) * (line[k + 1][1] - line[k][1])
          + (line[k + 1][2] - line[k][2]) * (line[k + 1][2] - line[k][2]))

SegUnit(line, k) ==
    LET ex == line[k + 1][1] - line[k][1]
        ez == line[k + 1][2] - line[k][2]
        len == SegLength(line, k)
        g == GCD(GCD(Abs(ex), Abs(ez)), len)
    IN IF len = 0 THEN <<0, 0, 1>> ELSE <<ex \div g, ez \div g, len \div g>>

\* the length of the line before segment k
CumLength(line, k) == SumTo([j \in 0..(k - 2) |-> SegLength(line, j + 1)], k - 1)

\* the denominator the unit directions of all segments share
RECURSIVE UnitDen(_, _)
UnitDen(line, k) ==
    IF k = 0 THEN 1
    ELSE LET rest == UnitDen(line, k - 1)
             ul == SegUnit(line, k)[3]
         IN (rest * ul) \div GCD(rest, ul)

\* the segment that holds arc length i * L / n: the first one that ends at or
\* after it
SegmentAt(line, i, n) ==
    LET L == LineLength(line)
        ends == {k \in 1..(Len(line) - 1) : i * L <= CumLength(line, k + 1) * n}
    IN IF ends = {} THEN Len(line) - 1 ELSE SetMin(ends)

\* line.interpolate(i / n, normalized=True).coords[0], as numerators over
\* n * UnitDen; on a line of length 0 it is the first point
Interpolate(line, i, n) ==
    LET L == LineLength(line)
        ud == UnitDen(line, Len(line) - 1)
        k == SegmentAt(line, i, n)
        u == SegUnit(line, k)
        along == (i * L - CumLength(line, k) * n) * (ud \div u[3])
    IN <<line[k][1] * n * ud + u[1] * along, line[k][2] * n * ud + u[2] * along>>

\* the forward difference wherever there is a next sample
DifferenceForward(coords, idx) ==
    IF idx + 1 \in DOMAIN coords
    THEN <<coords[idx + 1][1] - coords[idx][1], coords[idx + 1][2] - coords[idx][2]>>
    ELSE <<coords[idx][1] - coords[idx - 1][1], coords[idx][2] - coords[idx - 1][2]>>

\* nx, nz before the normalisation: the forward difference at the first
\* sample, the backward difference at every other
Difference(coords, idx) ==
    IF idx = 0
    THEN <<coords[1][1] - coords[0][1], coords[1][2] - coords[0][2]>>
    ELSE <<coords[idx][1] - coords[idx - 1][1], coords[idx][2] - coords[idx - 1][2]>>

\* |d| / length_vec = |d| / (|d| + 1e-6) as <<numerator, denominator>>, for a
\* difference d of numerators over n * ud: the part of the half width that the
\* normalised perpendicular carries
Reach(d, n, ud) ==
    LET norm == ISqrt(d[1] * d[1] + d[2] * d[2]) \div ud
    IN <<norm * LengthEpsInv, norm * LengthEpsInv + n>>

\* left and right of sample idx: centre + side * (width / 2) * reach * perp / |perp|
RibbonPair(coords, idx, n, ud) ==
    LET d == Difference(coords, idx)
        v(side) == [centre |-> coords[idx], side |-> side, perp |-> <<-d[2], d[1]>>,
                    reach |-> Reach(d, n, ud)]
    IN <<v(1), v(-1)>>

\* for i in range(0, len(vertices) - 2, 2): (i, i + 1, i + 2), (i + 1, i + 3, i + 2)
RibbonFaces(nvertices) ==
    LET quads == IF nvertices > 2 THEN (nvertices - 1) \div 2 ELSE 0
    IN [f \in 1..(2 * quads) |->
          LET i == 2 * ((f - 1) \div 2)
          IN IF f % 2 = 1 THEN <<i, i + 1, i + 2>> ELSE <<i + 1, i + 3, i + 2>>]

\* the Trimesh of _build_spline_mesh in full: vertices (from index 0 in the
\* code, from 1 in the sequence) and faces
RibbonMesh(spline) ==
    LET line == Line2D(spline, 1)
        n == Max(12, LineLength(line) \div 6)
        ud == UnitDen(line, Len(line) - 1)
        coords == [i \in 0..n |-> Interpolate(line, i, n)]
    IN [samples |-> n, den |-> n * ud, width |-> <<spline.width, 2>>,
        vertices |-> [v \in 1..(2 * (n + 1)) |->
                         RibbonPair(coords, (v - 1) \div 2, n, ud)[2 - (v % 2)]],
        faces |-> RibbonFaces(2 * (n + 1))]

BuildSplineMesh(spline) ==
    LET samples == Max(12, LineLength(Line2D(spline, 1)) \div 6)
        nvertices == 2 * (samples + 1)
    IN [name |-> spline.name, kind |-> spline.kind, material |-> spline.material,
        mesh |-> [samples |-> samples, nvertices |-> nvertices,
                  nfaces |-> 2 * ((nvertices - 2) \div 2)]]

(***************************************************************************)
(* _scatter_vegetation                                                     *)
(***************************************************************************)
\* the count without the floor of one kilometre, int(density_per_km2 * scale_km)
RawVegetationCountNoFloor(sch) ==
    (sch.vegetation.density10 * sch.scale10) \div 100

\* int(density_per_km2 * max(scale_km, 1)), density and scale both in tenths
RawVegetationCount(sch) ==
    (sch.vegetation.density10 * Max(sch.scale10, 10)) \div 100

\* the count without the ceiling
VegetationCountUncapped(sch) == RawVegetationCount(sch)

VegetationCount(sch) == Min(RawVegetationCount(sch), MAX_VEGETATION_INSTANCES)

\* min(int(x / step), hm_res - 2) for x = size_m * u / UDen
VegIndex(u, R) == Min((u * (R - 1)) \div UDen, R - 2)

\* instance i (from 0) with the generator at draw k: seven draws, x, z, the
\* tree/bush choice, the scale and three colour jitters.  x and z are numerators
\* over UDen, the scale a numerator over 60 * UDen.
VegInstance(sch, hm, seed, k, i) ==
    LET ux == DrawU(seed, k)
        uz == DrawU(seed, k + 1)
        is_tree == 10 * DrawU(seed, k + 2) > 3 * UDen
        us == DrawU(seed, k + 3)
        j1 == DrawU(seed, k + 4)
        j2 == DrawU(seed, k + 5)
        j3 == DrawU(seed, k + 6)
        R == Res(hm)
    IN [name |-> <<"veg", i>>, kind |-> "vegetation", material |-> "foliage",
        mesh |-> [x |-> SizeM(sch) * ux, z |-> SizeM(sch) * uz,
                  xi |-> VegIndex(ux, R), zi |-> VegIndex(uz, R),
                  h |-> hm.cells[VegIndex(ux, R)][VegIndex(uz, R)],
                  is_tree |-> is_tree,
                  scale |-> IF is_tree
                            THEN Uniform(30, Min(sch.vegetation.max_height10, 210), us)
                            ELSE Uniform(18, 48, us),
                  color |-> IF is_tree
                            THEN <<28 + RandInt(20, j1), 100 + RandInt(40, j2), 65 + RandInt(20, j3)>>
                            ELSE <<40 + RandInt(20, j1), 130 + RandInt(30, j2), 80 + RandInt(20, j3)>>]]

ScatterVegetation(sch, hm, seed, k) ==
    [n \in 1..VegetationCount(sch) |-> VegInstance(sch, hm, seed, k + 7 * (n - 1), n - 1)]

(***************************************************************************)
(* The inputs: schemas the validation of app/schemas.py accepts.  Each     *)
(* family varies one part of a base schema.                                *)
(***************************************************************************)
BaseNoise ==
    [seed |-> 1, octaves |-> 2, frequency10 |-> 6, amplitude |-> 3, lacunarity |-> 2,
     persistence2 |-> 1, elevation_scale |-> 480, base_height |-> 35]

NoiseConfigs ==
    [seed : {1, 2}, octaves : {1, 2}, frequency10 : {6, 10}, amplitude : {1, 3},
     lacunarity : {2}, persistence2 : {1, 3}, elevation_scale : {5, 480},
     base_height : {-20, 35}]

Rule(kind, count, s0, s1, h0, h1, radius) ==
    [kind |-> kind, count |-> count, scale_range10 |-> <<s0, s1>>,
     height_range |-> <<h0, h1>>, scatter_radius |-> radius]

BaseRules == << Rule("tower", 2, 8, 18, 12, 90, 50) >>

RuleLists ==
    { <<>>,
      BaseRules,
      << Rule("bridge", 1, 10, 10, 20, 40, 20), Rule("dome", 2, 18, 8, 90, 12, 50) >>,
      << Rule("hub", 1, 8, 18, 12, 90, 11), Rule("farm", 1, 5, 30, 5, 6, 30),
         Rule("spire", 1, 8, 18, 12, 90, 50) >> }

Spline(name, kind, points, width, depth, material) ==
    [name |-> name, kind |-> kind, control_points |-> points, width |-> width,
     depth |-> depth, material |-> material]

\* along the edge z = 0 of a 500 m world, past both ends
SouthRiver == Spline("south_river", "river", << <<-100, 0, 0>>, <<600, 3, 0>> >>, 12, 2, "water")
\* a 3-4-5 diagonal through the origin
DiagonalRoad ==
    Spline("diagonal_road", "road", << <<-30, 0, -40>>, <<570, 0, 760>> >>, 60, 5, "asphalt")
\* along z = 0, then a right angle at (500, 0) and on along x = 500
CornerRoad ==
    Spline("corner_road", "road",
           << <<-100, 0, 0>>, <<500, 0, 0>>, <<500, 0, 600>> >>, 12, 10, "asphalt")
\* a river across the middle, z = 250
MidRiver == Spline("mid_river", "river", << <<-50, 0, 250>>, <<550, 0, 250>> >>, 1, 80, "water")
\* a river of depth 0
DryRiver == Spline("dry_river", "river", << <<-100, 0, 0>>, <<600, 0, 0>> >>, 200, 0, "water")

BaseSplines == << SouthRiver >>

SplineLists ==
    { <<>>,
      BaseSplines,
      << DiagonalRoad, SouthRiver >>,
      << CornerRoad, MidRiver, DiagonalRoad >>,
      << DryRiver, CornerRoad >> }

BaseVegetation == [density10 |-> 25, max_height10 |-> 120]

BaseSchema ==
    [scale10 |-> 5, heightmap |-> BaseNoise, object_rules |-> BaseRules,
     splines |-> BaseSplines, vegetation |-> BaseVegetation]

NoiseFamily == {[BaseSchema EXCEPT !.heightmap = cfg] : cfg \in NoiseConfigs}
RuleFamily == {[BaseSchema EXCEPT !.object_rules = rules] : rules \in RuleLists}
SplineFamily == {[BaseSchema EXCEPT !.splines = sp] : sp \in SplineLists}
VegetationFamily ==
    {[BaseSchema EXCEPT !.scale10 = s, !.vegetation = [density10 |-> d, max_height10 |-> m]] :
        s \in {5, 20, 2000}, d \in {0, 25, 199, 200, 50000}, m \in {20, 120}}

\* several rules together with several splines
MixedFamily ==
    {[BaseSchema EXCEPT !.object_rules = << Rule("hangar", 1, 10, 20, 30, 60, 40),
                                            Rule("outpost", 2, 8, 18, 12, 90, 50) >>,
                        !.splines = << DiagonalRoad, MidRiver >>]}

Schemas == NoiseFamily \cup RuleFamily \cup SplineFamily \cup VegetationFamily
              \cup MixedFamily

SeedArgs == {<<>>} \cup {<<s>> : s \in 0..MaxSeed}
Resolutions == 2..MaxRes

(***************************************************************************)
(* ProceduralEngine.build, one action per stage of the call.               *)
(***************************************************************************)
\* the next rule from r on that still has instances to place (range(rule.count)
\* of a rule with count 0 runs no iteration)
RECURSIVE NextRule(_, _)
NextRule(rules, r) ==
    IF r > Len(rules) \/ rules[r].count > 0 THEN r ELSE NextRule(rules, r + 1)

\* one engine of resolution R and the calls build(schs[b], seed=sas[b]) about to run
InitEngine(R, schs, sas, how) ==
    /\ grid_resolution = R
    /\ schema = schs
    /\ seedArg = sas
    /\ pc = [b \in Builds |-> "start"]
    /\ rng = [b \in Builds |-> <<>>]
    /\ heightmap = [b \in Builds |-> <<>>]
    /\ cursor = [b \in Builds |-> [spline |-> 1, rule |-> 1, inst |-> 0, object_idx |-> 0]]
    /\ meshes = [b \in Builds |-> <<>>]
    /\ layout_objects = [b \in Builds |-> <<>>]
    /\ result = [b \in Builds |-> <<>>]
    /\ sched = how
    /\ module_random = [seed |-> 42, used |-> 0]

\* the engine's calls alone: no lookup, no fallback in progress
InitCalls(R, schs, sas, how) ==
    /\ InitEngine(R, schs, sas, how)
    /\ lookup = <<>>
    /\ fallback_schema = <<>>
    /\ fallback_spec = <<>>
    /\ ribbon = <<>>

InitFor(R, sch, sa, how) ==
    InitCalls(R, [b \in Builds |-> sch], [b \in Builds |-> sa], how)

\* two calls build(schema, seed=seed), one after the other, on one engine
Init ==
    \E R \in Resolutions, sch \in Schemas, sa \in SeedArgs :
        InitFor(R, sch, sa, "sequential")

\* the generator left unseeded, random.Random(): its seed is the system's choice
SeedRngUnseeded(b) ==
    /\ pc[b] = "start"
    /\ sched = "sequential" => \A c \in Builds : c < b => pc[c] \in {"done", "error"}
    /\ \E s \in 0..(MaxSeed + 1) : rng' = [rng EXCEPT ![b] = [seed |-> s, used |-> 0]]
    /\ pc' = [pc EXCEPT ![b] = "heightmap"]
    /\ UNCHANGED <<grid_resolution, schema, seedArg, heightmap, cursor, meshes,
                   layout_objects, result, sched, module_random,
                   lookup, fallback_schema, fallback_spec, ribbon>>

\* rng = random.Random(seed or schema.heightmap.seed)
SeedRng(b) ==
    /\ pc[b] = "start"
    /\ sched = "sequential" => \A c \in Builds : c < b => pc[c] \in {"done", "error"}
    /\ rng' = [rng EXCEPT ![b] =
                 [seed |-> SeedChoice(seedArg[b], schema[b].heightmap.seed), used |-> 0]]
    /\ pc' = [pc EXCEPT ![b] = "heightmap"]
    /\ UNCHANGED <<grid_resolution, schema, seedArg, heightmap, cursor, meshes,
                   layout_objects, result, sched, module_random,
                   lookup, fallback_schema, fallback_spec, ribbon>>

\* _generate_heightmap raises for a resolution below 2: for 1 the spacing
\* size / (grid_resolution - 1) is a division by zero, for 0 the minimum of the
\* empty grid has no value, below 0 np.zeros refuses the shape
ResolutionRaises(R) == R < 2

\* the spacing guarded like the normalisation, size / (grid_resolution - 1 + 1e-6):
\* resolution 1 then gives a grid of one node, at base_height
HeightmapSpacingGuarded(b) ==
    /\ pc[b] = "heightmap"
    /\ IF grid_resolution < 1
       THEN pc' = [pc EXCEPT ![b] = "error"] /\ UNCHANGED heightmap
       ELSE /\ heightmap' = [heightmap EXCEPT ![b] =
                  IF grid_resolution = 1
                  THEN [den |-> CarveDen,
                        cells |-> [i \in {0} |-> [j \in {0} |->
                                     CarveDen * schema[b].heightmap.base_height]]]
                  ELSE GenerateHeightmap(schema[b], grid_resolution)]
            /\ pc' = [pc EXCEPT ![b] = "carve"]
    /\ UNCHANGED <<grid_resolution, schema, seedArg, rng, cursor, meshes,
                   layout_objects, result, sched, module_random,
                   lookup, fallback_schema, fallback_spec, ribbon>>

\* the noise seeded from the call's generator instead of from schema.heightmap.seed
HeightmapFromGenerator(b) ==
    /\ pc[b] = "heightmap"
    /\ IF ResolutionRaises(grid_resolution)
       THEN pc' = [pc EXCEPT ![b] = "error"] /\ UNCHANGED heightmap
       ELSE /\ heightmap' = [heightmap EXCEPT ![b] =
                  GenerateHeightmap([schema[b] EXCEPT !.heightmap.seed = rng[b].seed],
                                    grid_resolution)]
            /\ pc' = [pc EXCEPT ![b] = "carve"]
    /\ UNCHANGED <<grid_resolution, schema, seedArg, rng, cursor, meshes,
                   layout_objects, result, sched, module_random,
                   lookup, fallback_schema, fallback_spec, ribbon>>

\* the grid kept on the engine: a call that follows a finished call takes the grid
\* that call generated instead of generating its own
HeightmapCached(b) ==
    /\ pc[b] = "heightmap"
    /\ IF ResolutionRaises(grid_resolution)
       THEN pc' = [pc EXCEPT ![b] = "error"] /\ UNCHANGED heightmap
       ELSE /\ heightmap' = [heightmap EXCEPT ![b] =
                  IF \E c \in Builds : c # b /\ pc[c] = "done"
                  THEN GenerateHeightmap(schema[CHOOSE c \in Builds : c # b /\ pc[c] = "done"],
                                         grid_resolution)
                  ELSE GenerateHeightmap(schema[b], grid_resolution)]
            /\ pc' = [pc EXCEPT ![b] = "carve"]
    /\ UNCHANGED <<grid_resolution, schema, seedArg, rng, cursor, meshes,
                   layout_objects, result, sched, module_random,
                   lookup, fallback_schema, fallback_spec, ribbon>>

\* heightmap = self._generate_heightmap(schema)
Heightmap(b) ==
    /\ pc[b] = "heightmap"
    /\ IF ResolutionRaises(grid_resolution)
       THEN pc' = [pc EXCEPT ![b] = "error"] /\ UNCHANGED heightmap
       ELSE /\ heightmap' = [heightmap EXCEPT ![b] =
                                GenerateHeightmap(schema[b], grid_resolution)]
            /\ pc' = [pc EXCEPT ![b] = "carve"]
    /\ UNCHANGED <<grid_resolution, schema, seedArg, rng, cursor, meshes,
                   layout_objects, result, sched, module_random,
                   lookup, fallback_schema, fallback_spec, ribbon>>

\* LineString(points) raises for exactly one point; no point gives the empty line
LineStringRaises(spline) == Len(spline.control_points) = 1

\* line.interpolate(...).coords[0] raises on the empty line: the interpolated
\* point is empty and has no coordinate
InterpolateRaises(spline) == Len(spline.control_points) = 0

\* the carving of a spline taking one draw from the call's generator
CarveDrawing(b) ==
    /\ pc[b] = "carve"
    /\ cursor[b].spline <= Len(schema[b].splines)
    /\ IF LineStringRaises(schema[b].splines[cursor[b].spline])
       THEN pc' = [pc EXCEPT ![b] = "error"] /\ UNCHANGED <<heightmap, cursor, rng>>
       ELSE /\ heightmap' = [heightmap EXCEPT ![b] =
                  CarveSpline(heightmap[b], schema[b], schema[b].splines[cursor[b].spline])]
            /\ cursor' = [cursor EXCEPT ![b].spline = @ + 1]
            /\ rng' = [rng EXCEPT ![b].used = @ + 1]
            /\ UNCHANGED pc
    /\ UNCHANGED <<grid_resolution, schema, seedArg, meshes,
                   layout_objects, result, sched, module_random,
                   lookup, fallback_schema, fallback_spec, ribbon>>

\* one iteration of `for spline in schema.splines: self._carve_spline(...)`
Carve(b) ==
    /\ pc[b] = "carve"
    /\ cursor[b].spline <= Len(schema[b].splines)
    /\ IF LineStringRaises(schema[b].splines[cursor[b].spline])
       THEN pc' = [pc EXCEPT ![b] = "error"] /\ UNCHANGED <<heightmap, cursor>>
       ELSE /\ heightmap' = [heightmap EXCEPT ![b] =
                  CarveSpline(heightmap[b], schema[b], schema[b].splines[cursor[b].spline])]
            /\ cursor' = [cursor EXCEPT ![b].spline = @ + 1]
            /\ UNCHANGED pc
    /\ UNCHANGED <<grid_resolution, schema, seedArg, rng, meshes,
                   layout_objects, result, sched, module_random,
                   lookup, fallback_schema, fallback_spec, ribbon>>

\* the terrain meshed from the grid as generated, before the carving
TerrainInputUncarved(b) == GenerateHeightmap(schema[b], grid_resolution)

\* the grid the terrain mesher is given
TerrainInput(b) == heightmap[b]

\* terrain_mesh = self._build_terrain_mesh(heightmap, schema); meshes = [terrain]
Terrain(b) ==
    /\ pc[b] = "carve"
    /\ cursor[b].spline > Len(schema[b].splines)
    /\ meshes' = [meshes EXCEPT ![b] =
                    << [name |-> "terrain", kind |-> "terrain", material |-> "terrain",
                        mesh |-> BuildTerrainMesh(TerrainInput(b), schema[b])] >>]
    /\ cursor' = [cursor EXCEPT ![b].rule = NextRule(schema[b].object_rules, 1),
                                ![b].inst = 0, ![b].object_idx = 0]
    /\ pc' = [pc EXCEPT ![b] = "place"]
    /\ UNCHANGED <<grid_resolution, schema, seedArg, rng, heightmap,
                   layout_objects, result, sched, module_random,
                   lookup, fallback_schema, fallback_spec, ribbon>>

\* the generator read from the process-wide random module instead of the call's own
GeneratorModuleWide(b) == module_random

\* the generator the placement and the vegetation stage of call b draw from: the
\* local `rng` of the call, passed on as an argument
Generator(b) == rng[b]

\* one iteration of the inner loop over range(rule.count): _place_object,
\* _make_structure, the two appends and object_idx += 1
Place(b) ==
    /\ pc[b] = "place"
    /\ cursor[b].rule <= Len(schema[b].object_rules)
    /\ LET rule == schema[b].object_rules[cursor[b].rule]
           placed == PlaceObject(rule, SizeM(schema[b]), Generator(b).seed, Generator(b).used)
           asset == MakeStructure(rule, placed.pos, placed.scale, cursor[b].object_idx)
           last == cursor[b].inst + 1 >= rule.count
       IN /\ rng' = [rng EXCEPT ![b].used = @ + 4]
          /\ meshes' = [meshes EXCEPT ![b] = Append(@, asset)]
          /\ layout_objects' = [layout_objects EXCEPT ![b] =
                Append(@, [name |-> asset.name, position |-> placed.pos,
                           scale |-> placed.scale, kind |-> asset.kind,
                           material |-> asset.material])]
          /\ cursor' = [cursor EXCEPT
                ![b].object_idx = @ + 1,
                ![b].inst = IF last THEN 0 ELSE @ + 1,
                ![b].rule = IF last THEN NextRule(schema[b].object_rules, @ + 1) ELSE @]
    /\ UNCHANGED <<grid_resolution, schema, seedArg, pc, heightmap, result, sched, module_random,
                   lookup, fallback_schema, fallback_spec, ribbon>>

\* the ribbons put in front of the structures, straight after the terrain
SplineMeshesBeforeStructures(b) ==
    /\ pc[b] = "place"
    /\ cursor[b].rule > Len(schema[b].object_rules)
    /\ meshes' = [meshes EXCEPT ![b] =
                    << @[1] >>
                    \o [n \in 1..Len(schema[b].splines) |->
                            BuildSplineMesh(schema[b].splines[n])]
                    \o SubSeq(@, 2, Len(@))]
    /\ pc' = [pc EXCEPT ![b] = "vegetation"]
    /\ UNCHANGED <<grid_resolution, schema, seedArg, rng, heightmap, cursor,
                   layout_objects, result, sched, module_random,
                   lookup, fallback_schema, fallback_spec, ribbon>>

\* meshes.extend([self._build_spline_mesh(spline, schema) for spline in schema.splines])
SplineMeshes(b) ==
    /\ pc[b] = "place"
    /\ cursor[b].rule > Len(schema[b].object_rules)
    /\ IF \E n \in 1..Len(schema[b].splines) : InterpolateRaises(schema[b].splines[n])
       THEN pc' = [pc EXCEPT ![b] = "error"] /\ UNCHANGED meshes
       ELSE /\ meshes' = [meshes EXCEPT ![b] =
                            @ \o [n \in 1..Len(schema[b].splines) |->
                                    BuildSplineMesh(schema[b].splines[n])]]
            /\ pc' = [pc EXCEPT ![b] = "vegetation"]
    /\ UNCHANGED <<grid_resolution, schema, seedArg, rng, heightmap, cursor,
                   layout_objects, result, sched, module_random,
                   lookup, fallback_schema, fallback_spec, ribbon>>

\* the grid the vegetation scatterer is given
VegetationInput(b) == heightmap[b]

\* vegetation_assets = self._scatter_vegetation(schema, heightmap, rng), the extend,
\* the WorldLayout and the return
Vegetation(b) ==
    /\ pc[b] = "vegetation"
    /\ LET assets == ScatterVegetation(schema[b], VegetationInput(b),
                                       Generator(b).seed, Generator(b).used)
       IN /\ rng' = [rng EXCEPT ![b].used = @ + 7 * Len(assets)]
          /\ result' = [result EXCEPT ![b] =
                [meshes |-> meshes[b] \o assets,
                 heightmap |-> heightmap[b],
                 layout |-> [terrain_bounds_m |-> <<SizeM(schema[b]), SizeM(schema[b])>>,
                             objects |-> layout_objects[b],
                             splines |-> schema[b].splines,
                             vegetation_count |-> Len(assets)]]]
    /\ pc' = [pc EXCEPT ![b] = "done"]
    /\ UNCHANGED <<grid_resolution, schema, seedArg, heightmap, cursor, meshes,
                   layout_objects, sched, module_random,
                   lookup, fallback_schema, fallback_spec, ribbon>>

Next ==
    \E b \in Builds :
        \/ SeedRng(b)
        \/ Heightmap(b)
        \/ Carve(b)
        \/ Terrain(b)
        \/ Place(b)
        \/ SplineMeshes(b)
        \/ Vegetation(b)

Spec == Init /\ [][Next]_vars

(***************************************************************************)
(* The engine and the schemas at the edges: resolutions below 2, which the *)
(* constructor takes unchecked, splines of no, one or coinciding control   *)
(* points, which SplineRule accepts, and rules of count 0, which a schema  *)
(* holds when it is built without validation.                              *)
(***************************************************************************)
EdgeResolutions == {-1, 0, 1} \cup Resolutions

NoPointRiver == Spline("no_point_river", "river", <<>>, 12, 2, "water")
OnePointRoad == Spline("one_point_road", "road", << <<250, 0, 250>> >>, 12, 2, "asphalt")
\* two control points on one node of the 3 x 3 grid of a 500 m world
PointRiver ==
    Spline("point_river", "river", << <<250, 0, 250>>, <<250, 0, 250>> >>, 200, 2, "water")
\* three control points that differ in height only
PointRoad ==
    Spline("point_road", "road",
           << <<0, 0, 0>>, <<0, 5, 0>>, <<0, 9, 0>> >>, 60, 5, "asphalt")

EdgeSplineLists ==
    { BaseSplines,
      << NoPointRiver >>,
      << SouthRiver, NoPointRiver >>,
      << OnePointRoad >>,
      << SouthRiver, OnePointRoad, DiagonalRoad >>,
      << PointRiver >>,
      << DiagonalRoad, PointRoad, SouthRiver >> }

EdgeRuleLists ==
    { << Rule("tower", 0, 8, 18, 12, 90, 50) >>,
      << Rule("hub", 1, 8, 18, 12, 90, 11), Rule("dome", 0, 8, 18, 12, 90, 50),
         Rule("farm", 2, 5, 30, 5, 6, 30) >> }

EdgeSchemas ==
    {[BaseSchema EXCEPT !.splines = sp] : sp \in EdgeSplineLists}
       \cup {[BaseSchema EXCEPT !.object_rules = rules] : rules \in EdgeRuleLists}
       \cup {[BaseSchema EXCEPT !.object_rules = rules, !.splines = << PointRiver, MidRiver >>] :
                 rules \in EdgeRuleLists}

InitEdge ==
    \E R \in EdgeResolutions, sch \in EdgeSchemas, sa \in SeedArgs :
        InitFor(R, sch, sa, "sequential")

SpecEdge == InitEdge /\ [][Next]_vars

(***************************************************************************)
(* The builds whose schemas vary in their splines, for the properties of   *)
(* the grid and of the meshes made from it.                                *)
(***************************************************************************)
GridSchemas == SplineFamily \cup MixedFamily

InitGrid ==
    \E R \in Resolutions, sch \in GridSchemas : InitFor(R, sch, <<>>, "sequential")

SpecGrid == InitGrid /\ [][Next]_vars

(***************************************************************************)
(* Two calls, one after the other, that differ in one part of their input: *)
(* the same schema under two explicit seeds, or the same seed and rules    *)
(* under schemas that differ in their vegetation or their splines.         *)
(***************************************************************************)
ExplicitSeeds == {<<s>> : s \in 0..(MaxSeed + 1)}

MixedSchema == CHOOSE sch \in MixedFamily : TRUE

VariedSchemas(sch) ==
    {[sch EXCEPT !.splines = sp] : sp \in SplineLists}
       \cup {[sch EXCEPT !.vegetation = [density10 |-> 199, max_height10 |-> 20]],
             [sch EXCEPT !.vegetation = [density10 |-> 0, max_height10 |-> 120],
                         !.splines = << DryRiver, CornerRoad >>]}

SchemaPairs ==
    {<<sch, other>> : sch \in {BaseSchema, MixedSchema}, other \in VariedSchemas(BaseSchema)}
       \cup {<<MixedSchema, other>> : other \in VariedSchemas(MixedSchema)}

InitPairs ==
    \E R \in Resolutions, schs \in SchemaPairs, sa1 \in ExplicitSeeds, sa2 \in ExplicitSeeds :
        InitCalls(R, [b \in Builds |-> schs[b]],
                  [b \in Builds |-> IF b = 1 THEN sa1 ELSE sa2], "sequential")

SpecPairs == InitPairs /\ [][Next]_vars

(***************************************************************************)
(* Two calls whose steps interleave, on one engine, while other threads of *)
(* the process use the random module (app/prompt_service.py,               *)
(* _fallback_spec: random.seed(seed or 42), then random.choice).           *)
(***************************************************************************)
\* random.seed(seed or 42)
ModuleSeed(s) == IF s = 0 THEN 42 ELSE s

\* a step of another thread on the random module: a reseeding or one draw
ModuleRandomDraw ==
    /\ \/ \E s \in 0..MaxSeed : module_random' = [seed |-> ModuleSeed(s), used |-> 0]
       \/ /\ module_random.used < MaxModuleDraws
          /\ module_random' = [module_random EXCEPT !.used = @ + 1]
    /\ UNCHANGED <<grid_resolution, schema, seedArg, pc, rng, heightmap, cursor,
                   meshes, layout_objects, result, sched,
                   lookup, fallback_schema, fallback_spec, ribbon>>

OtherBaseSchema ==
    [BaseSchema EXCEPT !.heightmap.seed = 2,
                       !.object_rules = << Rule("hub", 1, 8, 18, 12, 90, 11),
                                           Rule("dome", 1, 18, 8, 90, 12, 50) >>,
                       !.splines = << DiagonalRoad, MidRiver >>]

\* the schemas of the two calls
InterleavedSchemas ==
    { <<BaseSchema, BaseSchema>>, <<BaseSchema, OtherBaseSchema>>,
      <<OtherBaseSchema, BaseSchema>> }

InitInterleaved ==
    \E R \in Resolutions, schs \in InterleavedSchemas, sa \in SeedArgs,
       how \in {"sequential", "interleaved"} :
        InitCalls(R, [b \in Builds |-> schs[b]],
                  [b \in Builds |-> IF b = 1 THEN sa ELSE <<>>], how)

NextInterleaved == Next \/ ModuleRandomDraw

SpecInterleaved == InitInterleaved /\ [][NextInterleaved]_vars

(***************************************************************************)
(* The height lookup of _scatter_vegetation on its own, over the closed    *)
(* range of positions.  A position is size_m * u / UDen; u = UDen is the   *)
(* far edge, which stands for the positions whose quotient x / step        *)
(* reaches hm_res - 1 (in floating point, x = 12000 * (1 - 2^-53) with     *)
(* hm_res = 10 gives int(x / step) = 9).                                   *)
(***************************************************************************)
\* int(x / step) for x = size_m * u / UDen and step = size_m / (hm_res - 1)
FloorQuotient(u, R) == (u * (R - 1)) \div UDen

\* the engine idle, a position chosen and not yet looked up
InitLookup ==
    \E R \in Resolutions, ux \in 0..UDen, uz \in 0..UDen :
        /\ InitEngine(R, [b \in Builds |-> BaseSchema], [b \in Builds |-> <<>>], "sequential")
        /\ lookup = [x |-> ux, z |-> uz, state |-> "position"]
        /\ fallback_schema = <<>>
        /\ fallback_spec = <<>>
        /\ ribbon = <<>>

\* xi = min(int(x / step), hm_res - 2), zi likewise
VegetationLookup ==
    /\ lookup # <<>>
    /\ lookup.state = "position"
    /\ lookup' = [x |-> lookup.x, z |-> lookup.z, state |-> "looked",
                  xi |-> VegIndex(lookup.x, grid_resolution),
                  zi |-> VegIndex(lookup.z, grid_resolution)]
    /\ UNCHANGED <<grid_resolution, schema, seedArg, pc, rng, heightmap, cursor,
                   meshes, layout_objects, result, sched, module_random,
                   fallback_schema, fallback_spec, ribbon>>

NextLookup == VegetationLookup

SpecLookup == InitLookup /\ [][NextLookup]_vars

(***************************************************************************)
(* _build_spline_mesh on its own: one call per spline, over straight       *)
(* splines of several directions, lengths and widths, splines with a       *)
(* corner, splines of length 0 and the control-point lists that make no    *)
(* line.                                                                   *)
(***************************************************************************)
RibbonStarts == { <<0, 0>>, <<-30, -40>> }
RibbonSpans ==
    { <<0, 0>>, <<30, 0>>, <<0, 72>>, <<60, 80>>, <<600, 0>>, <<-300, 400>>,
      <<600, 800>>, <<0, 1200>> }
RibbonWidths == { 1, 60, 200 }

RibbonSplines ==
    { Spline("ribbon", kind, << <<p[1], 0, p[2]>>, <<p[1] + e[1], 7, p[2] + e[2]>> >>,
             w, 2, "any") :
        kind \in {"road", "river"}, p \in RibbonStarts, e \in RibbonSpans,
        w \in RibbonWidths }
      \cup { CornerRoad, PointRoad, PointRiver, OnePointRoad, NoPointRiver }

InitRibbon ==
    \E spline \in RibbonSplines :
        /\ InitEngine(2, [b \in Builds |-> BaseSchema], [b \in Builds |-> <<>>], "sequential")
        /\ lookup = <<>>
        /\ fallback_schema = <<>>
        /\ fallback_spec = <<>>
        /\ ribbon = [spline |-> spline, state |-> "call"]

\* _build_spline_mesh(spline, schema)
BuildRibbon ==
    /\ ribbon # <<>>
    /\ ribbon.state = "call"
    /\ ribbon' =
         IF LineStringRaises(ribbon.spline) \/ InterpolateRaises(ribbon.spline)
         THEN [spline |-> ribbon.spline, state |-> "raised"]
         ELSE [spline |-> ribbon.spline, state |-> "returned",
               asset |-> [name |-> ribbon.spline.name, kind |-> ribbon.spline.kind,
                          material |-> ribbon.spline.material,
                          mesh |-> RibbonMesh(ribbon.spline)]]
    /\ UNCHANGED <<grid_resolution, schema, seedArg, pc, rng, heightmap, cursor,
                   meshes, layout_objects, result, sched, module_random,
                   lookup, fallback_schema, fallback_spec>>

NextRibbon == BuildRibbon

SpecRibbon == InitRibbon /\ [][NextRibbon]_vars

(***************************************************************************)
(* app/world_service.py: generate_world_schema when the LLM path fails, and *)
(* the bounds of app/schemas.py that the models check on construction.      *)
(* Lengths in tenths (scale10, scatter_radius10, elevation_scale10), widths *)
(* in twentieths, control points in fiftieths; frequency is a numerator     *)
(* over 100 * UDen and amplitude one over UDen.                             *)
(***************************************************************************)
MAX_SEED_SPACE == 1048576

\* WorldDesignSpec.scale_km and WorldSchema.scale_km: confloat(gt=0.1, le=200.0)
ValidScale(scale10) == scale10 > 1 /\ scale10 <= 2000

\* ObjectPlacementRule
ValidPlacementRule(r) ==
    /\ r.kind \in {"tower", "hub", "farm", "outpost", "bridge", "spire", "hangar", "dome"}
    /\ r.count >= 1 /\ r.count <= 200
    /\ r.scatter_radius10 > 100 /\ r.scatter_radius10 <= 20000

\* TerrainNoise
ValidTerrainNoise(h) ==
    /\ h.seed >= 0 /\ h.seed <= 2147483647
    /\ h.octaves >= 1 /\ h.octaves <= 10
    /\ h.frequency * 100 > UDen /\ h.frequency < 500 * UDen
    /\ h.amplitude > 0 /\ h.amplitude <= 500 * UDen
    /\ h.lacunarity10 > 1 /\ h.lacunarity10 <= 40
    /\ h.persistence100 > 10 /\ h.persistence100 <= 150
    /\ h.elevation_scale10 > 1 /\ h.elevation_scale10 <= 20000
    /\ h.base_height >= -500 /\ h.base_height <= 1500

\* SplineRule
ValidSplineRule(sp) ==
    /\ sp.kind \in {"road", "river"}
    /\ \A n \in 1..Len(sp.control_points50) : Len(sp.control_points50[n]) = 3
    /\ sp.width20 > 10 /\ sp.width20 <= 4000
    /\ sp.depth10 >= 0 /\ sp.depth10 <= 800

\* VegetationRule
ValidVegetationRule(v) ==
    /\ v.density_per_km2 >= 0 /\ v.density_per_km2 <= 5000
    /\ v.max_height10 > 5 /\ v.max_height10 <= 600

\* LightingConfig, in hundredths but for the fog density, in thousandths
ValidLighting(l) ==
    /\ l.sun_azimuth >= 0 /\ l.sun_azimuth <= 360
    /\ l.sun_elevation >= -5 /\ l.sun_elevation <= 90
    /\ l.ambient_intensity100 > 0 /\ l.ambient_intensity100 <= 300
    /\ Len(l.sky_color100) = 3
    /\ l.fog_density1000 >= 0 /\ l.fog_density1000 <= 200
    /\ l.exposure100 > 1 /\ l.exposure100 <= 500

\* SkyConfig
ValidSky(k) ==
    /\ k.type \in {"clear", "cloudy", "storm", "aurora", "stars"}
    /\ k.cloud_density100 >= 0 /\ k.cloud_density100 <= 100
    /\ k.haze100 >= 0 /\ k.haze100 <= 100

\* WorldSchema, field by field
ValidWorldSchema(w) ==
    /\ ValidScale(w.scale10)
    /\ ValidTerrainNoise(w.heightmap)
    /\ \A n \in 1..Len(w.object_rules) : ValidPlacementRule(w.object_rules[n])
    /\ \A n \in 1..Len(w.splines) : ValidSplineRule(w.splines[n])
    /\ ValidVegetationRule(w.vegetation)
    /\ ValidLighting(w.lighting)
    /\ ValidSky(w.sky)

\* rng.randint(a, b) from one draw
RandIntBetween(a, b, u) == a + RandInt(b - a, u)

\* ObjectPlacementRule(kind=..., count=..., scatter_radius=design.scale_km * factor)
FallbackRule(kind, count, scale10, factor) ==
    [kind |-> kind, count |-> count, scatter_radius10 |-> scale10 * factor]

\* the arguments _fallback_schema gives to the models, in the order it builds
\* them: the four rules, the noise, the two splines, the vegetation, the
\* lighting, the sky
FallbackFields(design, seed) ==
    LET s == SeedChoice(seed, 42)
        k == design.scale10
        night == design.night
    IN [scale10 |-> k,
        heightmap |->
          [seed |-> RandInt(MAX_SEED_SPACE, DrawU(s, 0)),
           octaves |-> RandIntBetween(6, 9, DrawU(s, 1)),
           frequency |-> Uniform(35, 65, DrawU(s, 2)),
           amplitude |-> Uniform(150, 280, DrawU(s, 3)),
           lacunarity10 |-> 22, persistence100 |-> 52,
           elevation_scale10 |-> k * 28, base_height |-> 15],
        object_rules |->
          << FallbackRule("tower", RandIntBetween(15, 35, DrawU(s, 4)), k, 30),
             FallbackRule("spire", RandIntBetween(10, 25, DrawU(s, 5)), k, 35),
             FallbackRule("dome", RandIntBetween(8, 18, DrawU(s, 6)), k, 28),
             FallbackRule("bridge", Max(4, k \div 40), k, 32) >>,
        splines |->
          << [name |-> "main_highway", kind |-> "road",
              control_points50 |-> << <<0, 0, 0>>, <<k * 600, 0, k * 900>>,
                                      <<k * 1400, 0, k * 2100>>, <<k * 2250, 0, k * 3400>>,
                                      <<k * 2900, 0, k * 4250>> >>,
              width20 |-> Max(280, k), depth10 |-> 15, material |-> "asphalt"],
             [name |-> "scenic_river", kind |-> "river",
              control_points50 |-> << <<k, 0, -(k * 750)>>, <<k * 900, 0, k * 400>>,
                                      <<k * 1750, 0, k * 1600>>, <<k * 2600, 0, k * 2750>>,
                                      <<k * 3250, 0, k * 3900>> >>,
              width20 |-> Max(400, 2 * k), depth10 |-> 60, material |-> "water"] >>,
        vegetation |-> [density_per_km2 |-> 450, max_height10 |-> 220],
        lighting |->
          [sun_azimuth |-> 145, sun_elevation |-> IF night THEN 8 ELSE 42,
           ambient_intensity100 |-> IF night THEN 42 ELSE 38,
           sky_color100 |-> IF night THEN <<35, 55, 85>> ELSE <<52, 70, 95>>,
           fog_density1000 |-> 15, exposure100 |-> 115],
        sky |-> [type |-> IF night THEN "stars" ELSE "cloudy",
                 cloud_density100 |-> 35, haze100 |-> 12]]

\* the first model whose construction raises a ValidationError, "" if none does
FirstInvalid(w) ==
    LET bad == {n \in 1..Len(w.object_rules) : ~ValidPlacementRule(w.object_rules[n])}
    IN IF bad # {} THEN w.object_rules[SetMin(bad)].kind
       ELSE IF ~ValidTerrainNoise(w.heightmap) THEN "heightmap"
       ELSE IF \E n \in 1..Len(w.splines) : ~ValidSplineRule(w.splines[n]) THEN "splines"
       ELSE IF ~ValidVegetationRule(w.vegetation) THEN "vegetation"
       ELSE IF ~ValidLighting(w.lighting) THEN "lighting"
       ELSE IF ~ValidSky(w.sky) THEN "sky"
       ELSE IF ~ValidScale(w.scale10) THEN "scale_km"
       ELSE ""

\* the valid scales tried, in tenths of a kilometre: the ends of the range, the
\* five values of the design fallback, and both sides of every scale at which a
\* field of the fallback crosses a bound
FallbackScales ==
    { 2, 3, 4, 10, 120, 180, 250, 400, 571, 572, 600, 625, 626, 666, 667, 714, 715, 2000 }

\* how the LLM path fails: chat raises, json.loads raises, model_validate raises
LLMFailures == { "exception", "invalid_json", "invalid_schema" }

InitFallbackSchema ==
    \E k \in FallbackScales, night \in BOOLEAN, sa \in SeedArgs, failure \in LLMFailures :
        /\ InitEngine(2, [b \in Builds |-> BaseSchema], [b \in Builds |-> <<>>], "sequential")
        /\ lookup = <<>>
        /\ fallback_schema = [design |-> [scale10 |-> k, night |-> night], seed |-> sa,
                              llm |-> failure, state |-> "call"]
        /\ fallback_spec = <<>>
        /\ ribbon = <<>>

\* generate_world_schema(design, seed=seed): every failure of the try block is
\* an Exception and leads to `return _fallback_schema(design, seed)`, which is
\* outside every try
GenerateWorldSchema ==
    /\ fallback_schema # <<>>
    /\ fallback_schema.state = "call"
    /\ fallback_schema.llm \in LLMFailures
    /\ LET w == FallbackFields(fallback_schema.design, fallback_schema.seed)
           bad == FirstInvalid(w)
       IN fallback_schema' =
            IF bad = ""
            THEN [fallback_schema EXCEPT !.state = "returned"] @@ [schema |-> w]
            ELSE [fallback_schema EXCEPT !.state = "raised"] @@ [invalid |-> bad]
    /\ UNCHANGED <<grid_resolution, schema, seedArg, pc, rng, heightmap, cursor,
                   meshes, layout_objects, result, sched, module_random,
                   lookup, fallback_spec, ribbon>>

NextFallbackSchema == GenerateWorldSchema

SpecFallbackSchema == InitFallbackSchema /\ [][NextFallbackSchema]_vars

(***************************************************************************)
(* app/prompt_service.py: _fallback_spec, called by two threads of one     *)
(* process.  random.seed and random.choice work on the one generator of    *)
(* the random module; each call of them is one step.                       *)
(***************************************************************************)
Threads == {1, 2}

FallbackScaleChoices == <<12, 18, 25, 40, 60>>
FallbackTerrains ==
    <<"mountainous", "archipelago", "rolling hills", "canyon", "mesa plateau", "coastal cliffs">>
FallbackWeathers ==
    <<"overcast with distant storms", "crisp blue sky", "misty horizon", "twilight haze",
      "aurora filled night">>
FallbackMoods == <<"mysterious", "epic", "serene", "hopeful", "ominous">>
FallbackTimes == <<"golden hour", "midnight", "dawn", "dusk">>

\* the fields drawn, in the order of the draws, each with its list
FallbackDraws ==
    << [field |-> "scale_km", from |-> FallbackScaleChoices],
       [field |-> "terrain_type", from |-> FallbackTerrains],
       [field |-> "sky_weather", from |-> FallbackWeathers],
       [field |-> "mood", from |-> FallbackMoods],
       [field |-> "time_of_day", from |-> FallbackTimes] >>

\* random.choice(seq) from one draw
Choice(seq, u) == seq[1 + (u * Len(seq)) \div UDen]

\* "forest" if "forest" in description_lower else "desert" if ... else "mixed biomes"
Biome(description) ==
    IF description = "a forest" THEN "forest"
    ELSE IF description = "a desert" THEN "desert"
    ELSE "mixed biomes"

Descriptions == { "a forest", "a desert", "a city" }

\* the draws of a call that has the generator to itself
FallbackSpecAlone(description, seed) ==
    LET s == SeedChoice(seed, 42)
    IN [biome |-> Biome(description),
        picks |-> [n \in 1..Len(FallbackDraws) |-> Choice(FallbackDraws[n].from, DrawU(s, n - 1))]]

InitFallbackSpec ==
    \E d1 \in Descriptions, d2 \in Descriptions, sa1 \in SeedArgs, sa2 \in SeedArgs,
       how \in {"sequential", "interleaved"} :
        /\ InitEngine(2, [b \in Builds |-> BaseSchema], [b \in Builds |-> <<>>], how)
        /\ lookup = <<>>
        /\ fallback_schema = <<>>
        /\ fallback_spec =
             [t \in Threads |->
                [description |-> IF t = 1 THEN d1 ELSE d2,
                 seed |-> IF t = 1 THEN sa1 ELSE sa2,
                 pc |-> "seed", picks |-> <<>>, spec |-> <<>>]]
        /\ ribbon = <<>>

\* sequential callers: a thread runs once those before it have returned
FallbackTurn(t) ==
    /\ fallback_spec # <<>>
    /\ sched = "sequential" => \A o \in Threads : o < t => fallback_spec[o].pc = "done"

\* random.seed(seed or 42)
FallbackSeed(t) ==
    /\ FallbackTurn(t)
    /\ fallback_spec[t].pc = "seed"
    /\ module_random' = [seed |-> SeedChoice(fallback_spec[t].seed, 42), used |-> 0]
    /\ fallback_spec' = [fallback_spec EXCEPT ![t].pc = "choice"]
    /\ UNCHANGED <<grid_resolution, schema, seedArg, pc, rng, heightmap, cursor,
                   meshes, layout_objects, result, sched, lookup, fallback_schema, ribbon>>

\* the next random.choice of the call
FallbackChoice(t) ==
    /\ FallbackTurn(t)
    /\ fallback_spec[t].pc = "choice"
    /\ Len(fallback_spec[t].picks) < Len(FallbackDraws)
    /\ LET n == Len(fallback_spec[t].picks) + 1
           pick == Choice(FallbackDraws[n].from, DrawU(module_random.seed, module_random.used))
       IN fallback_spec' = [fallback_spec EXCEPT ![t].picks = Append(@, pick)]
    /\ module_random' = [module_random EXCEPT !.used = @ + 1]
    /\ UNCHANGED <<grid_resolution, schema, seedArg, pc, rng, heightmap, cursor,
                   meshes, layout_objects, result, sched, lookup, fallback_schema, ribbon>>

\* return WorldDesignSpec(biome=biome, terrain_type=..., scale_km=float(scale), ...)
FallbackReturn(t) ==
    /\ FallbackTurn(t)
    /\ fallback_spec[t].pc = "choice"
    /\ Len(fallback_spec[t].picks) = Len(FallbackDraws)
    /\ fallback_spec' =
         [fallback_spec EXCEPT ![t].pc = "done",
                               ![t].spec = [biome |-> Biome(fallback_spec[t].description),
                                            picks |-> fallback_spec[t].picks]]
    /\ UNCHANGED <<grid_resolution, schema, seedArg, pc, rng, heightmap, cursor,
                   meshes, layout_objects, result, sched, module_random, lookup,
                   fallback_schema, ribbon>>

NextFallbackSpec ==
    \E t \in Threads : FallbackSeed(t) \/ FallbackChoice(t) \/ FallbackReturn(t)

SpecFallbackSpec == InitFallbackSpec /\ [][NextFallbackSpec]_vars

(***************************************************************************)
(* Properties.                                                             *)
(***************************************************************************)
Done(b) == pc[b] = "done"

\* the vegetation assets of a mesh list
VegetationOf(ms) == {n \in 1..Len(ms) : ms[n].kind = "vegetation"}

\* the rule that the k-th placed instance (from 0, over all rules in schema order)
\* belongs to
RECURSIVE RuleOfObject(_, _, _)
RuleOfObject(rules, r, k) ==
    IF k < rules[r].count THEN r ELSE RuleOfObject(rules, r + 1, k - rules[r].count)

\* C1: two calls of build with the same schema and the same seed argument, on an
\* engine of one grid resolution, return the same height grid node by node, the
\* same number of layout objects, the same positions and scales in the same order
\* and the same vegetation count.
C1_Determinism ==
    (Done(1) /\ Done(2) /\ schema[1] = schema[2] /\ seedArg[1] = seedArg[2]) =>
        /\ result[1].heightmap = result[2].heightmap
        /\ Len(result[1].layout.objects) = Len(result[2].layout.objects)
        /\ \A k \in 1..Len(result[1].layout.objects) :
              /\ result[1].layout.objects[k].position = result[2].layout.objects[k].position
              /\ result[1].layout.objects[k].scale = result[2].layout.objects[k].scale
        /\ result[1].layout.vegetation_count = result[2].layout.vegetation_count

C1_Witness ==
    /\ Done(1) /\ Done(2)
    /\ schema[1] = schema[2] /\ seedArg[1] = seedArg[2]
    /\ Len(result[2].layout.objects) >= 2
    /\ result[2].layout.vegetation_count > 0
    /\ result[2].heightmap # GenerateHeightmap(schema[2], grid_resolution)

\* C2: a call with an explicit seed s, 0 included, seeds its random source with s;
\* the schema's noise seed is used only when no seed argument is given.
C2_ExplicitSeedUsed ==
    \A b \in Builds :
        rng[b] # <<>> =>
            rng[b].seed = IF seedArg[b] # <<>> THEN seedArg[b][1]
                          ELSE schema[b].heightmap.seed

\* C3: every node of the grid _generate_heightmap returns (before any carving)
\* lies in [base_height, base_height + elevation_scale].
C3_ElevationBounds ==
    \A b \in Builds :
        (pc[b] = "carve" /\ cursor[b].spline = 1) =>
            LET hm == heightmap[b]
                cfg == schema[b].heightmap
            IN \A i \in DOMAIN hm.cells : \A j \in DOMAIN hm.cells[i] :
                  /\ cfg.base_height * hm.den <= hm.cells[i][j]
                  /\ hm.cells[i][j] <= (cfg.base_height + cfg.elevation_scale) * hm.den

C3_Witness ==
    \E b \in Builds :
        /\ pc[b] = "carve" /\ cursor[b].spline = 1
        /\ grid_resolution = 3
        /\ schema[b].heightmap.base_height < 0
        /\ \E i, j \in DOMAIN heightmap[b].cells :
              heightmap[b].cells[i][j] = schema[b].heightmap.base_height * heightmap[b].den
        /\ \E i, j \in DOMAIN heightmap[b].cells :
              2 * heightmap[b].cells[i][j] >
                 (2 * schema[b].heightmap.base_height + schema[b].heightmap.elevation_scale)
                 * heightmap[b].den

\* the square of a placed position's horizontal distance from the terrain centre
\* (size_m/2, size_m/2), in units of 1/PosDen^2
CentreDistance2(sch, pos) ==
    LET c == 25 * UDen * SizeM(sch)
    IN (pos[1] - c) * (pos[1] - c) + (pos[3] - c) * (pos[3] - c)

\* C4: every placed instance is at a horizontal distance from the terrain centre
\* within [0.4 * scatter_radius, scatter_radius]; its scale lies between the ends
\* of scale_range and its height between the ends of height_range.
C4_PlacementContainment ==
    \A b \in Builds : \A k \in 1..Len(layout_objects[b]) :
        LET rule == schema[b].object_rules[RuleOfObject(schema[b].object_rules, 1, k - 1)]
            obj == layout_objects[b][k]
            d2 == CentreDistance2(schema[b], obj.position)
            lo == (4 * rule.scatter_radius * PosDen) \div 10
            hi == rule.scatter_radius * PosDen
        IN /\ lo * lo <= d2 /\ d2 <= hi * hi
           /\ obj.position[2] = 0
           /\ Min(rule.scale_range10[1], rule.scale_range10[2]) * UDen <= obj.scale[1]
           /\ obj.scale[1] <= Max(rule.scale_range10[1], rule.scale_range10[2]) * UDen
           /\ obj.scale[3] = obj.scale[1]
           /\ Min(rule.height_range[1], rule.height_range[2]) * UDen <= obj.scale[2]
           /\ obj.scale[2] <= Max(rule.height_range[1], rule.height_range[2]) * UDen

C4_Witness ==
    \E b \in Builds :
        /\ Len(layout_objects[b]) >= 3
        /\ \E k \in 1..Len(layout_objects[b]) :
              /\ layout_objects[b][k].kind = "dome"
              /\ layout_objects[b][k].scale[1] > 8 * UDen
              /\ layout_objects[b][k].scale[1] < 18 * UDen

\* C5: one build never yields more than MAX_VEGETATION_INSTANCES vegetation
\* instances, and yields exactly that many when density_per_km2 * max(scale_km, 1)
\* is at least 4000.
C5_VegetationCap ==
    \A b \in Builds :
        Done(b) =>
            LET n == Cardinality(VegetationOf(result[b].meshes))
                product100 == schema[b].vegetation.density10 * Max(schema[b].scale10, 10)
            IN /\ n <= 4000
               /\ product100 >= 400000 => n = 4000

C5_Witness ==
    \E b \in Builds :
        /\ Done(b)
        /\ schema[b].vegetation.density10 = 50000 /\ schema[b].scale10 = 2000
        /\ Cardinality(VegetationOf(result[b].meshes)) = 4000

\* C6: the number of vegetation assets of the result equals layout.vegetation_count
\* and equals min(floor(density_per_km2 * max(scale_km, 1)), 4000): a world below
\* 1 km counts as 1 km, and density 0 gives no vegetation.
C6_VegetationCount ==
    \A b \in Builds :
        Done(b) =>
            LET n == Cardinality(VegetationOf(result[b].meshes))
                d10 == schema[b].vegetation.density10
                km10 == IF schema[b].scale10 < 10 THEN 10 ELSE schema[b].scale10
            IN /\ n = result[b].layout.vegetation_count
               /\ n <= 4000
               /\ n < 4000 => (100 * n <= d10 * km10 /\ d10 * km10 < 100 * (n + 1))
               /\ n = 4000 => d10 * km10 >= 400000
               /\ d10 = 0 => n = 0

C6_Witness ==
    \E b \in Builds :
        /\ Done(b)
        /\ schema[b].scale10 < 10
        /\ schema[b].vegetation.density10 = 25
        /\ result[b].layout.vegetation_count = 2

\* build call b takes the step that carves its next spline
CarveStep(b) ==
    /\ pc[b] = "carve"
    /\ cursor[b].spline <= Len(schema[b].splines)
    /\ cursor'[b].spline = cursor[b].spline + 1

\* the nodes of call b's grid inside the corridor of spline sp
CorridorNodes(b, sp) ==
    {ij \in (0..(grid_resolution - 1)) \X (0..(grid_resolution - 1)) :
        InCorridor(schema[b], grid_resolution, sp, ij[1], ij[2])}

\* C7: after _carve_spline for a river of depth > 0, every node inside the
\* spline's corridor is strictly lower than before that carve.
C7_CarvingMonotonicity ==
    [][\A b \in Builds :
          LET sp == schema[b].splines[cursor[b].spline]
          IN (CarveStep(b) /\ sp.kind = "river" /\ sp.depth > 0) =>
                \A ij \in CorridorNodes(b, sp) :
                    heightmap'[b].cells[ij[1]][ij[2]] < heightmap[b].cells[ij[1]][ij[2]]]_vars

C7_Witness ==
    \E b \in Builds :
        /\ pc[b] = "carve"
        /\ cursor[b].spline > 1
        /\ LET sp == schema[b].splines[cursor[b].spline - 1]
           IN /\ sp.kind = "river" /\ sp.depth > 0
              /\ Cardinality(CorridorNodes(b, sp)) >= 3
              /\ Cardinality(CorridorNodes(b, sp)) < grid_resolution * grid_resolution

\* C8: one call of _carve_spline lowers each node inside the corridor once, by
\* depth for a river and by 0.3 * depth for a road.
C8_CarveAmount ==
    [][\A b \in Builds :
          LET sp == schema[b].splines[cursor[b].spline]
          IN CarveStep(b) =>
                /\ heightmap'[b].den = heightmap[b].den
                /\ \A ij \in CorridorNodes(b, sp) :
                      LET old == heightmap[b].cells[ij[1]][ij[2]]
                          new == heightmap'[b].cells[ij[1]][ij[2]]
                      IN IF sp.kind = "river"
                         THEN old - new = sp.depth * heightmap[b].den
                         ELSE 10 * (old - new) = 3 * sp.depth * heightmap[b].den]_vars

C8_Witness ==
    \E b \in Builds :
        /\ pc[b] = "carve"
        /\ cursor[b].spline > 2
        /\ LET road == schema[b].splines[1]
               river == schema[b].splines[2]
           IN /\ road.kind = "road" /\ road.depth > 0 /\ Len(road.control_points) = 3
              /\ river.kind = "river" /\ river.depth > 0
              /\ Cardinality(CorridorNodes(b, road)) >= 3
              /\ CorridorNodes(b, river) # {}

\* C9: the terrain mesh of an R x R grid has R*R vertices and 2*(R-1)*(R-1)
\* triangles.
C9_TerrainMeshSize ==
    \A b \in Builds :
        meshes[b] # <<>> =>
            /\ meshes[b][1].kind = "terrain"
            /\ Len(meshes[b][1].mesh.vertices) = grid_resolution * grid_resolution
            /\ Len(meshes[b][1].mesh.faces) =
                  2 * (grid_resolution - 1) * (grid_resolution - 1)

C9_Witness ==
    \E b \in Builds :
        /\ meshes[b] # <<>>
        /\ grid_resolution = 3
        /\ Len(meshes[b][1].mesh.vertices) = 9
        /\ Len(meshes[b][1].mesh.faces) = 8

\* all the splines up to number n carved into grid hm, in schema order
RECURSIVE CarvedUpTo(_, _, _)
CarvedUpTo(hm, sch, n) ==
    IF n = 0 THEN hm ELSE CarveSpline(CarvedUpTo(hm, sch, n - 1), sch, sch.splines[n])

\* the grid of schema sch with every spline carved
FullyCarved(sch, R) == CarvedUpTo(GenerateHeightmap(sch, R), sch, Len(sch.splines))

\* the order of the stages of one call
StageOrder ==
    { <<"start", "heightmap">>, <<"heightmap", "carve">>, <<"carve", "place">>,
      <<"place", "vegetation">>, <<"vegetation", "done">> }

\* a step of call b keeps to the order: the stages follow one another, the splines
\* are carved one by one in schema order, the terrain is meshed only when every
\* spline is carved, the instances are placed rule by rule, and the grid changes
\* in no stage after the carving
OrderedStep(b) ==
    /\ pc'[b] # pc[b] => <<pc[b], pc'[b]>> \in StageOrder
    /\ heightmap'[b] # heightmap[b] =>
          \/ pc[b] = "heightmap"
          \/ /\ pc[b] = "carve" /\ pc'[b] = "carve"
             /\ cursor'[b].spline = cursor[b].spline + 1
             /\ heightmap'[b] = CarvedUpTo(GenerateHeightmap(schema[b], grid_resolution),
                                          schema[b], cursor[b].spline)
    /\ (pc[b] = "carve" /\ pc'[b] = "place") =>
          /\ cursor[b].spline = Len(schema[b].splines) + 1
          /\ heightmap[b] = FullyCarved(schema[b], grid_resolution)
    /\ (pc[b] = "place" /\ pc'[b] = "place") =>
          /\ cursor'[b].rule >= cursor[b].rule
          /\ Len(meshes'[b]) = Len(meshes[b]) + 1
    /\ (pc[b] = "place" /\ pc'[b] = "vegetation") =>
          /\ cursor[b].rule = Len(schema[b].object_rules) + 1
          /\ Len(meshes'[b]) = Len(meshes[b]) + Len(schema[b].splines)

\* what a finished call returns reflects one grid, the fully carved one: the
\* returned grid, the heights of the terrain's vertices and of the vegetation
ResultOnCarvedGrid(b) ==
    Done(b) =>
        LET res == result[b]
            R == grid_resolution
            terrain == res.meshes[1].mesh
        IN /\ res.heightmap = FullyCarved(schema[b], R)
           /\ \A i, j \in 0..(R - 1) :
                 terrain.vertices[i * R + j + 1][2] = res.heightmap.cells[i][j]
           /\ \A n \in VegetationOf(res.meshes) :
                 res.meshes[n].mesh.h =
                    res.heightmap.cells[res.meshes[n].mesh.xi][res.meshes[n].mesh.zi]

\* C10: build runs its stages in the order heightmap, carving of every spline in
\* schema order, terrain mesh, placement of every rule in schema order, spline
\* ribbons, vegetation; the carving is complete before the terrain mesher or the
\* vegetation scatterer reads the grid and nothing changes the grid afterwards,
\* so that terrain heights, vegetation heights and the returned grid are those of
\* the fully carved grid.
C10_StageOrdering ==
    /\ [][\A b \in Builds : OrderedStep(b)]_vars
    /\ [](\A b \in Builds : ResultOnCarvedGrid(b))

C10_Witness ==
    \E b \in Builds :
        /\ Done(b)
        /\ Len(schema[b].splines) >= 2
        /\ Len(schema[b].object_rules) >= 1
        /\ result[b].heightmap # GenerateHeightmap(schema[b], grid_resolution)
        /\ \E n \in VegetationOf(result[b].meshes) :
              result[b].meshes[n].mesh.h #
                 GenerateHeightmap(schema[b], grid_resolution).cells
                    [result[b].meshes[n].mesh.xi][result[b].meshes[n].mesh.zi]

\* the number of instances the rules from r on ask for
RECURSIVE TotalCount(_, _)
TotalCount(rules, r) ==
    IF r > Len(rules) THEN 0 ELSE rules[r].count + TotalCount(rules, r + 1)

\* C11: the mesh list of a result is, in this order: the one terrain asset, one
\* structure asset per placed instance (the sum of the rules' counts, rule by rule
\* and instance by instance), one ribbon per spline in schema order, and then the
\* vegetation assets; layout.objects has as many entries as there are structures.
C11_ResultComposition ==
    \A b \in Builds :
        Done(b) =>
            LET ms == result[b].meshes
                rules == schema[b].object_rules
                splines == schema[b].splines
                N == TotalCount(rules, 1)
                S == Len(splines)
            IN /\ Len(ms) >= 1 + N + S
               /\ ms[1].kind = "terrain"
               /\ \A n \in 2..Len(ms) : ms[n].kind # "terrain"
               /\ \A k \in 1..N :
                     LET rule == rules[RuleOfObject(rules, 1, k - 1)]
                     IN /\ ms[1 + k].kind = rule.kind
                        /\ ms[1 + k].name = <<rule.kind, k - 1>>
               /\ \A n \in 1..S :
                     /\ ms[1 + N + n].name = splines[n].name
                     /\ ms[1 + N + n].kind = splines[n].kind
               /\ \A n \in (2 + N + S)..Len(ms) : ms[n].kind = "vegetation"
               /\ Len(ms) = 1 + N + S + result[b].layout.vegetation_count
               /\ Len(result[b].layout.objects) = N

C11_Witness ==
    \E b \in Builds :
        /\ Done(b)
        /\ Len(schema[b].object_rules) = 2
        /\ Len(schema[b].splines) = 2
        /\ Len(result[b].meshes) = 1 + 3 + 2 + 2
        /\ result[b].meshes[4].kind = "outpost"
        /\ result[b].meshes[6].name = "mid_river"
        /\ result[b].meshes[8].kind = "vegetation"

\* C12: the k-th placed instance (from 0) gives one mesh asset named <kind>_<k> and
\* the layout object number k with the same name, kind and material, the sampled
\* position (x, 0, z) and the scale (s, height/10, s); the names of the instances
\* of one build are pairwise distinct; the material is metal for tower, spire and
\* hub and concrete for every other kind.  (A name is the pair of the kind and the
\* index: the kinds hold no digit and no underscore, so two names are the same
\* string exactly when they are the same pair.)
C12_InstanceRecord ==
    \A b \in Builds :
        Done(b) =>
            LET ms == result[b].meshes
                objs == result[b].layout.objects
                rules == schema[b].object_rules
            IN /\ \A k \in 0..(Len(objs) - 1) :
                     LET rule == rules[RuleOfObject(rules, 1, k)]
                         asset == ms[k + 2]
                         obj == objs[k + 1]
                         sampled == PlaceObject(rule, SizeM(schema[b]), rng[b].seed, 4 * k)
                     IN /\ asset.name = <<rule.kind, k>>
                        /\ obj.name = asset.name
                        /\ obj.kind = rule.kind /\ asset.kind = rule.kind
                        /\ obj.material = asset.material
                        /\ asset.material = IF rule.kind \in {"tower", "spire", "hub"}
                                            THEN "metal" ELSE "concrete"
                        /\ obj.position = sampled.pos
                        /\ obj.position[2] = 0
                        /\ obj.scale = <<sampled.scale[1], sampled.scale[2], sampled.scale[1]>>
                        /\ asset.mesh.position = obj.position
                        /\ asset.mesh.scale = obj.scale
               /\ \A k, l \in 1..Len(objs) : objs[k].name = objs[l].name => k = l

C12_Witness ==
    \E b \in Builds :
        /\ Done(b)
        /\ Len(result[b].layout.objects) = 3
        /\ result[b].layout.objects[1].kind = "hub"
        /\ result[b].layout.objects[1].material = "metal"
        /\ result[b].layout.objects[2].name = <<"farm", 1>>
        /\ result[b].layout.objects[2].material = "concrete"
        /\ result[b].layout.objects[3].material = "metal"
        /\ result[b].layout.objects[2].position # result[b].layout.objects[3].position

\* call b takes a step that places one instance
PlaceStep(b) == pc[b] = "place" /\ Len(layout_objects'[b]) = Len(layout_objects[b]) + 1

\* C14: all random draws of a build come from one generator, seeded once at the
\* start of the build.  Each placed instance consumes exactly four draws, in the
\* order angle, radius, scale, height; the instances are placed rule by rule in
\* schema order and, within a rule, in instance order; every placement draw comes
\* before every vegetation draw; no other stage consumes a draw.
C14_RandomConsumption ==
    [][\A b \in Builds :
          LET rules == schema[b].object_rules
              k == Len(layout_objects[b])
          IN /\ rng[b] = <<>> =>
                   \/ rng'[b] = <<>>
                   \/ pc[b] = "start" /\ rng'[b].used = 0
             /\ rng[b] # <<>> =>
                   /\ rng'[b] # <<>>
                   /\ rng'[b].seed = rng[b].seed
                   /\ rng'[b].used # rng[b].used =>
                         \/ PlaceStep(b)
                         \/ /\ pc[b] = "vegetation"
                            /\ k = TotalCount(rules, 1)
                            /\ rng[b].used = 4 * k
                            /\ rng'[b].used >= rng[b].used
             /\ PlaceStep(b) =>
                   LET rule == rules[RuleOfObject(rules, 1, k)]
                       obj == layout_objects'[b][k + 1]
                       seed == rng[b].seed
                       n == rng[b].used
                       theta == CosSin5(DrawU(seed, n))
                       radius == PlaceRadius(rule, DrawU(seed, n + 1))
                   IN /\ n = 4 * k
                      /\ rng'[b].used = n + 4
                      /\ obj.kind = rule.kind
                      /\ obj.position[1] = PlaceCoord(SizeM(schema[b]), theta[1], radius)
                      /\ obj.position[3] = PlaceCoord(SizeM(schema[b]), theta[2], radius)
                      /\ obj.scale[1] = Uniform(rule.scale_range10[1], rule.scale_range10[2],
                                                DrawU(seed, n + 2))
                      /\ obj.scale[2] = Uniform(rule.height_range[1], rule.height_range[2],
                                                DrawU(seed, n + 3))]_vars

C14_Witness ==
    \E b \in Builds :
        /\ Done(b)
        /\ Len(schema[b].object_rules) >= 2
        /\ Len(result[b].layout.objects) >= 3
        /\ result[b].layout.vegetation_count > 0
        /\ rng[b].used = 4 * Len(result[b].layout.objects)
                             + 7 * result[b].layout.vegetation_count
        /\ DrawU(rng[b].seed, 6) # DrawU(rng[b].seed, 7)

\* the raw noise of schema sch is the same at every node of an R x R grid
FlatNoise(sch, R) ==
    \A i, j, k, l \in 0..(R - 1) :
        RawElevation(sch.heightmap, R, i, j) = RawElevation(sch.heightmap, R, k, l)

\* C18: when every raw noise value is the same, the normalisation of
\* _generate_heightmap does not divide by zero (its denominator is the 1e-6), every
\* node of the generated grid is base_height, and the build goes on to its end.
C18_FlatHeightmapGuard ==
    \A b \in Builds :
        (grid_resolution >= 2 /\ FlatNoise(schema[b], grid_resolution)) =>
            /\ heightmap[b] # <<>> => heightmap[b].den > 0
            /\ (pc[b] = "carve" /\ cursor[b].spline = 1) =>
                  \A i, j \in 0..(grid_resolution - 1) :
                      heightmap[b].cells[i][j] =
                         schema[b].heightmap.base_height * heightmap[b].den
            /\ pc[b] # "error"

C18_Witness ==
    \E b \in Builds :
        /\ Done(b)
        /\ FlatNoise(schema[b], grid_resolution)
        /\ schema[b].heightmap.amplitude = 3
        /\ schema[b].heightmap.octaves = 2
        /\ result[b].heightmap.den = CarveDen * Eps * RawDen(schema[b].heightmap)
        /\ \E i, j \in 0..(grid_resolution - 1) :
              result[b].heightmap.cells[i][j] =
                 schema[b].heightmap.base_height * result[b].heightmap.den

\* the structure assets of a mesh list
StructuresOf(ms) == {n \in 1..Len(ms) : ms[n].kind \notin {"terrain", "vegetation", "road", "river"}}

\* C19: for every structure kind and every sampled scale and height, the lowest
\* point of the mesh _make_structure returns has the y of the placement position,
\* y = 0: the base rests on the terrain plane.
C19_StructureGrounding ==
    \A b \in Builds : \A n \in StructuresOf(meshes[b]) :
        meshes[b][n].mesh.yspan[1] = 120 * meshes[b][n].mesh.position[2]

\* C20: no vegetation instance is taller than schema.vegetation.max_height: a tree
\* is a cone of height 6 * scale, a bush a sphere of radius 1.2 * scale (2.4 * scale
\* high); the scale is a numerator over 60 * UDen, max_height is held in tenths.
C20_VegetationHeightBound ==
    \A b \in Builds :
        Done(b) =>
            \A n \in VegetationOf(result[b].meshes) :
                LET veg == result[b].meshes[n].mesh
                    max_height10 == schema[b].vegetation.max_height10
                IN IF veg.is_tree
                   THEN veg.scale <= max_height10 * UDen
                   ELSE 2 * veg.scale <= 5 * max_height10 * UDen

\* the schema holds a spline of fewer than two control points
Malformed(sch) == \E n \in 1..Len(sch.splines) : Len(sch.splines[n].control_points) < 2

\* C15: when the schema holds a spline whose control-point list is empty or has
\* fewer than two points, build ends in an error before any grid work has begun:
\* no height grid is ever generated for the call and no result is returned.
C15_FailFast ==
    \A b \in Builds :
        Malformed(schema[b]) =>
            /\ heightmap[b] = <<>>
            /\ result[b] = <<>>
            /\ pc[b] \in {"start", "heightmap", "error"}

\* C16: an engine of grid_resolution below 2 never returns a result built on a
\* grid smaller than 2 x 2: the build is rejected with an error (no grid is made,
\* no later stage runs), and every result that is returned has a grid of at least
\* 2 x 2 nodes.
C16_InvalidResolution ==
    \A b \in Builds :
        /\ grid_resolution < 2 =>
              /\ result[b] = <<>>
              /\ heightmap[b] = <<>>
              /\ pc[b] \in {"start", "heightmap", "error"}
        /\ Done(b) =>
              /\ Res(result[b].heightmap) >= 2
              /\ \A i \in DOMAIN result[b].heightmap.cells :
                    Cardinality(DOMAIN result[b].heightmap.cells[i]) >= 2

C16_Witness ==
    /\ grid_resolution = 1
    /\ pc[1] = "error" /\ pc[2] = "error"
    /\ rng[2] # <<>>
    /\ result[2] = <<>>

\* all the control points of the spline are one point of the plane
ZeroLength(spline) ==
    /\ Len(spline.control_points) >= 2
    /\ \A n \in 1..Len(spline.control_points) :
          /\ spline.control_points[n][1] = spline.control_points[1][1]
          /\ spline.control_points[n][3] = spline.control_points[1][3]

HasLength(spline) == ~ZeroLength(spline)
IsRibbon(asset) == asset.kind \in {"road", "river"}

\* the schema without its zero-length splines
WithoutZeroLength(sch) == [sch EXCEPT !.splines = SelectSeq(@, HasLength)]

\* the schema holds a zero-length spline or a rule of count 0, and nothing malformed
Degenerate(sch) ==
    /\ ~Malformed(sch)
    /\ \/ \E n \in 1..Len(sch.splines) : ZeroLength(sch.splines[n])
       \/ \E r \in 1..Len(sch.object_rules) : sch.object_rules[r].count = 0

\* C17: a zero-length spline and a rule of count 0 do not abort the build; in the
\* result the offending element is skipped, it carves no node and gives no mesh
\* asset, and every other element is built: the terrain, the structures of the
\* other rules, the ribbons of the other splines, the vegetation.
C17_DegenerateTolerated ==
    \A b \in Builds :
        (grid_resolution >= 2 /\ Degenerate(schema[b])) =>
            /\ pc[b] # "error"
            /\ Done(b) =>
                  LET ms == result[b].meshes
                      rules == schema[b].object_rules
                      kept == WithoutZeroLength(schema[b])
                      ribbons == SelectSeq(ms, IsRibbon)
                  IN /\ result[b].heightmap = FullyCarved(kept, grid_resolution)
                     /\ ms[1].kind = "terrain"
                     /\ Cardinality(StructuresOf(ms)) = TotalCount(rules, 1)
                     /\ \A r \in 1..Len(rules) :
                           rules[r].count = 0 =>
                              \A n \in StructuresOf(ms) : ms[n].kind # rules[r].kind
                     /\ ribbons = [n \in 1..Len(kept.splines) |->
                                     BuildSplineMesh(kept.splines[n])]
                     /\ Cardinality(VegetationOf(ms)) = VegetationCount(schema[b])

\* what build(sch, seed=sa) returns on an engine of resolution R when nothing else
\* runs: the stages of build composed in their order
AloneResult(sch, sa, R) ==
    LET seed == SeedChoice(sa, sch.heightmap.seed)
        hm == FullyCarved(sch, R)
        rules == sch.object_rules
        N == TotalCount(rules, 1)
        rule(k) == rules[RuleOfObject(rules, 1, k - 1)]
        placed == [k \in 1..N |-> PlaceObject(rule(k), SizeM(sch), seed, 4 * (k - 1))]
        structures == [k \in 1..N |->
                         MakeStructure(rule(k), placed[k].pos, placed[k].scale, k - 1)]
        ribbons == [n \in 1..Len(sch.splines) |-> BuildSplineMesh(sch.splines[n])]
        vegetation == ScatterVegetation(sch, hm, seed, 4 * N)
    IN [meshes |-> << [name |-> "terrain", kind |-> "terrain", material |-> "terrain",
                       mesh |-> BuildTerrainMesh(hm, sch)] >>
                      \o structures \o ribbons \o vegetation,
        heightmap |-> hm,
        layout |-> [terrain_bounds_m |-> <<SizeM(sch), SizeM(sch)>>,
                    objects |-> [k \in 1..N |->
                                   [name |-> structures[k].name, position |-> placed[k].pos,
                                    scale |-> placed[k].scale, kind |-> structures[k].kind,
                                    material |-> structures[k].material]],
                    splines |-> sch.splines,
                    vegetation_count |-> Len(vegetation)]]

\* the state a call keeps for itself
Local(b) == <<pc[b], rng[b], heightmap[b], cursor[b], meshes[b], layout_objects[b],
              result[b]>>

\* C13: when two build calls run interleaved on one engine, each returns exactly
\* the result it returns when run alone; each call has its own generator and its
\* own grid, a step of one call changes nothing of the other call and nothing of
\* the engine, and the draws other threads make on the process-wide random module
\* change nothing of any call.
C13_BuildIsolation ==
    /\ [](\A b \in Builds :
             Done(b) => result[b] = AloneResult(schema[b], seedArg[b], grid_resolution))
    /\ [][/\ grid_resolution' = grid_resolution
          /\ \A b, c \in Builds :
                (b # c /\ Local(b)' # Local(b)) => Local(c)' = Local(c)
          /\ module_random' # module_random => \A b \in Builds : Local(b)' = Local(b)]_vars

C13_Witness ==
    /\ sched = "interleaved"
    /\ Done(1) /\ Done(2)
    /\ schema[1] # schema[2]
    /\ rng[1].seed # rng[2].seed
    /\ module_random.used > 0
    /\ result[1].heightmap # result[2].heightmap
    /\ Len(result[1].layout.objects) >= 2 /\ Len(result[2].layout.objects) >= 2
    /\ result[1].layout.vegetation_count > 0

\* C22: a build call leaves the engine's configuration (grid_resolution) and the
\* input schema unchanged, and the result of a call does not depend on the calls
\* the engine ran before: the second of two calls, run after a first call of
\* whatever schema and seed, returns what it returns as the engine's first call.
C22_NoPersistentState ==
    /\ [][grid_resolution' = grid_resolution /\ schema' = schema]_vars
    /\ []((sched = "sequential" /\ Done(1) /\ Done(2)) =>
             result[2] = AloneResult(schema[2], seedArg[2], grid_resolution))

C22_Witness ==
    /\ sched = "sequential"
    /\ Done(1) /\ Done(2)
    /\ schema[1] # schema[2]
    /\ seedArg[1] # seedArg[2]
    /\ result[1].heightmap # result[2].heightmap
    /\ result[1].layout.objects # result[2].layout.objects

\* the sign of the turn of a face (p, q, r) seen from above, from the horizontal
\* positions of its three vertices
Winding(vertices, face) ==
    LET p == vertices[face[1] + 1]
        q == vertices[face[2] + 1]
        r == vertices[face[3] + 1]
        cross == (q[1] - p[1]) * (r[3] - p[3]) - (q[3] - p[3]) * (r[1] - p[1])
    IN IF cross > 0 THEN 1 ELSE IF cross < 0 THEN -1 ELSE 0

\* C23: in the terrain mesh of an R x R grid, vertex number r*R + c is at
\* (r*step, heightmap[r][c], c*step); every cell (r, c) with r, c < R-1 gives
\* exactly the two triangles (a, c', b) and (b, c', d) over its corners a = (r, c),
\* b = (r, c+1), c' = (r+1, c), d = (r+1, c+1); every face index is in [0, R*R);
\* all triangles turn the same way.  (Positions carry the factor R - 1.)
C23_TerrainTriangulation ==
    \A m \in Builds :
        meshes[m] # <<>> =>
            LET R == grid_resolution
                terrain == meshes[m][1].mesh
                V == terrain.vertices
                F == terrain.faces
            IN /\ \A r, c \in 0..(R - 1) :
                     V[r * R + c + 1] =
                        <<r * SizeM(schema[m]), heightmap[m].cells[r][c], c * SizeM(schema[m])>>
               /\ Len(F) = 2 * (R - 1) * (R - 1)
               /\ \A r, c \in 0..(R - 2) :
                     LET a == r * R + c
                         b == r * R + c + 1
                         c1 == (r + 1) * R + c
                         d == (r + 1) * R + c + 1
                         n == 2 * (r * (R - 1) + c)
                     IN /\ F[n + 1] = <<a, c1, b>>
                        /\ F[n + 2] = <<b, c1, d>>
               /\ \A n \in 1..Len(F) : \A k \in 1..3 : F[n][k] >= 0 /\ F[n][k] < R * R
               /\ \A n \in 1..Len(F) : Winding(V, F[n]) # 0
               /\ \A n, k \in 1..Len(F) : Winding(V, F[n]) = Winding(V, F[k])

C23_Witness ==
    \E m \in Builds :
        /\ meshes[m] # <<>>
        /\ grid_resolution = 3
        /\ meshes[m][1].mesh.faces[7] = <<4, 7, 5>>
        /\ meshes[m][1].mesh.faces[8] = <<5, 7, 8>>
        /\ meshes[m][1].mesh.vertices[6][2] # meshes[m][1].mesh.vertices[5][2]
        /\ heightmap[m] # GenerateHeightmap(schema[m], grid_resolution)

\* the splines of the schema taken in the order perm
Reordered(sch, perm) ==
    [sch EXCEPT !.splines = [n \in 1..Len(sch.splines) |-> sch.splines[perm[n]]]]

\* every ordering of 1..n
Orderings(n) == {f \in [1..n -> 1..n] : \A k, l \in 1..n : f[k] = f[l] => k = l}

\* the sum of the cuts of the splines whose corridor holds node (i, j)
TotalCut(sch, R, den, i, j) ==
    SumTo([n \in 0..(Len(sch.splines) - 1) |->
              IF InCorridor(sch, R, sch.splines[n + 1], i, j)
              THEN Cut(sch.splines[n + 1], den) ELSE 0],
          Len(sch.splines))

\* call b has carved every spline
CarvingDone(b) == pc[b] \in {"place", "vegetation", "done"}

\* C24: when all splines of a schema are carved, each node's elevation is its
\* generated elevation less the sum, over the splines whose corridor holds the
\* node, of the spline's cut (depth for a river, 0.3 * depth for a road): cuts
\* compound where corridors overlap, and the final grid is the same for every
\* ordering of the splines.
C24_CompoundingCuts ==
    \A b \in Builds :
        CarvingDone(b) =>
            LET R == grid_resolution
                generated == GenerateHeightmap(schema[b], R)
            IN /\ heightmap[b].den = generated.den
               /\ \A i, j \in 0..(R - 1) :
                     heightmap[b].cells[i][j] =
                        generated.cells[i][j] - TotalCut(schema[b], R, generated.den, i, j)
               /\ \A perm \in Orderings(Len(schema[b].splines)) :
                     FullyCarved(Reordered(schema[b], perm), R) = heightmap[b]

C24_Witness ==
    \E b \in Builds :
        /\ CarvingDone(b)
        /\ Len(schema[b].splines) = 3
        /\ \E i, j \in 0..(grid_resolution - 1) :
              /\ InCorridor(schema[b], grid_resolution, schema[b].splines[1], i, j)
              /\ InCorridor(schema[b], grid_resolution, schema[b].splines[2], i, j)
              /\ schema[b].splines[1].kind # schema[b].splines[2].kind
              /\ schema[b].splines[1].depth > 0 /\ schema[b].splines[2].depth > 0
              /\ heightmap[b].cells[i][j] <
                    GenerateHeightmap(schema[b], grid_resolution).cells[i][j]
                       - Cut(schema[b].splines[1], heightmap[b].den)

\* C29: one call of _carve_spline changes the elevation only of nodes inside the
\* spline's corridor: every node outside keeps its elevation, no node's elevation
\* rises, and a spline of depth 0 leaves the whole grid unchanged.
C29_CarvingFrame ==
    [][\A b \in Builds :
          LET sp == schema[b].splines[cursor[b].spline]
              nodes == (0..(grid_resolution - 1)) \X (0..(grid_resolution - 1))
          IN CarveStep(b) =>
                /\ \A ij \in nodes \ CorridorNodes(b, sp) :
                      heightmap'[b].cells[ij[1]][ij[2]] = heightmap[b].cells[ij[1]][ij[2]]
                /\ \A ij \in nodes :
                      heightmap'[b].cells[ij[1]][ij[2]] <= heightmap[b].cells[ij[1]][ij[2]]
                /\ sp.depth = 0 => heightmap'[b] = heightmap[b]]_vars

C29_Witness ==
    \E b \in Builds :
        /\ pc[b] = "carve"
        /\ cursor[b].spline = 3
        /\ schema[b].splines[1].depth = 0
        /\ CorridorNodes(b, schema[b].splines[1]) # {}
        /\ schema[b].splines[2].depth > 0
        /\ CorridorNodes(b, schema[b].splines[2]) # {}
        /\ Cardinality(CorridorNodes(b, schema[b].splines[2]))
              < grid_resolution * grid_resolution
        /\ heightmap[b] # GenerateHeightmap(schema[b], grid_resolution)

\* C28: for one schema and one grid resolution, builds called with different
\* explicit seeds return the same height grid and the same terrain mesh; the seed
\* argument reaches the placement and the vegetation only.
C28_GridIndependentOfSeed ==
    (Done(1) /\ Done(2) /\ schema[1] = schema[2]) =>
        /\ result[1].heightmap = result[2].heightmap
        /\ result[1].meshes[1] = result[2].meshes[1]
        /\ result[1].heightmap = FullyCarved(schema[1], grid_resolution)

C28_Witness ==
    /\ Done(1) /\ Done(2)
    /\ schema[1] = schema[2]
    /\ seedArg[1] # seedArg[2]
    /\ rng[1].seed # rng[2].seed
    /\ rng[2].seed # schema[2].heightmap.seed
    /\ result[1].layout.objects # result[2].layout.objects
    /\ result[1].heightmap = result[2].heightmap

\* the two schemas differ at most in their vegetation rule and their splines
SamePlacementInput(sch, other) ==
    /\ sch.object_rules = other.object_rules
    /\ sch.scale10 = other.scale10
    /\ sch.heightmap = other.heightmap

\* C30: with the same seed and the same object rules, two schemas that differ only
\* in their vegetation rule or their splines give the same layout objects (names,
\* kinds, positions, scales).
C30_PlacementIndependence ==
    (/\ Done(1) /\ Done(2)
     /\ seedArg[1] = seedArg[2]
     /\ SamePlacementInput(schema[1], schema[2])) =>
        result[1].layout.objects = result[2].layout.objects

C30_Witness ==
    /\ Done(1) /\ Done(2)
    /\ seedArg[1] = seedArg[2]
    /\ SamePlacementInput(schema[1], schema[2])
    /\ schema[1].vegetation # schema[2].vegetation
    /\ Len(schema[1].splines) # Len(schema[2].splines)
    /\ result[1].layout.vegetation_count # result[2].layout.vegetation_count
    /\ result[1].heightmap # result[2].heightmap
    /\ Len(result[1].layout.objects) >= 2


RibbonReturned == ribbon # <<>> /\ ribbon.state = "returned"

\* samples, vertex pairs and faces of the returned ribbon, stated from the
\* spline: n = max(12, floor(L / 6)) intervals; 2 * (n + 1) vertices, a left and
\* a right one per sample, on the centreline point at i / n of the length, their
\* direction perpendicular to the forward difference at the first sample and to
\* the backward difference elsewhere; 2 * n triangles, two per pair of
\* consecutive vertex pairs, sharing an edge; every face index an existing vertex
RibbonStructure ==
    LET sp == ribbon.spline
        line == Line2D(sp, 1)
        L == LineLength(line)
        n == Max(12, L \div 6)
        m == ribbon.asset.mesh
        V == m.vertices
        F == m.faces
        ud == m.den \div n
        centre(i) == V[2 * i + 1].centre
        diff(i) == IF i = 0
                   THEN <<centre(1)[1] - centre(0)[1], centre(1)[2] - centre(0)[2]>>
                   ELSE <<centre(i)[1] - centre(i - 1)[1], centre(i)[2] - centre(i - 1)[2]>>
    IN /\ m.samples = n
       /\ Len(V) = 2 * (n + 1)
       /\ m.width = <<sp.width, 2>>
       /\ \A i \in 0..n :
            /\ V[2 * i + 1].side = 1 /\ V[2 * i + 2].side = -1
            /\ V[2 * i + 2].centre = centre(i)
            /\ centre(i) = Interpolate(line, i, n)
            /\ Len(line) = 2 =>
                 centre(i) = <<(line[1][1] * n + (line[2][1] - line[1][1]) * i) * ud,
                               (line[1][2] * n + (line[2][2] - line[1][2]) * i) * ud>>
            /\ V[2 * i + 1].perp = <<-diff(i)[2], diff(i)[1]>>
            /\ V[2 * i + 2].perp = V[2 * i + 1].perp
       /\ Len(F) = 2 * n
       /\ \A k \in 0..(n - 1) :
            LET a == {F[2 * k + 1][j] : j \in 1..3}
                b == {F[2 * k + 2][j] : j \in 1..3}
            IN /\ Cardinality(a) = 3 /\ Cardinality(b) = 3
               /\ a \cup b = {2 * k, 2 * k + 1, 2 * k + 2, 2 * k + 3}
               /\ Cardinality(a \cap b) = 2
       /\ \A f \in 1..Len(F) : \A j \in 1..3 : F[f][j] \in 0..(Len(V) - 1)
       /\ BuildSplineMesh(sp).mesh = [samples |-> n, nvertices |-> Len(V), nfaces |-> Len(F)]

\* every vertex lies (width / 2) * |d| / (|d| + 1e-6) from its centreline point,
\* d the difference used at its sample: short of width / 2, and on the centreline
\* itself where the samples coincide
RibbonOffsetGuarded ==
    LET sp == ribbon.spline
        line == Line2D(sp, 1)
        L == LineLength(line)
        m == ribbon.asset.mesh
        V == m.vertices
    IN \A v \in 1..Len(V) :
         /\ V[v].reach[2] = V[v].reach[1] + m.samples
         /\ V[v].reach[1] < V[v].reach[2]
         /\ V[v].reach[1] = 0 <=> V[v].perp = <<0, 0>>
         /\ Len(line) = 2 => V[v].reach[1] = L * LengthEpsInv
         /\ L = 0 => V[v].reach[1] = 0

\* every vertex lies width / 2 from its centreline point
RibbonOffsetHalfWidth ==
    LET V == ribbon.asset.mesh.vertices
    IN \A v \in 1..Len(V) : V[v].reach[1] = V[v].reach[2]

\* C25 as amended: a ribbon has n = max(12, floor(L / 6)) intervals, 2 * (n + 1)
\* vertices in left/right pairs along the local perpendicular (forward difference
\* at the first sample, backward elsewhere), each (width / 2) * |d| / (|d| + 1e-6)
\* from the centreline, and 2 * n triangles in a quad strip whose indices all
\* refer to existing vertices
C25_RibbonShape == RibbonReturned => (RibbonStructure /\ RibbonOffsetGuarded)

\* C25 as stated: the same with every vertex offset width / 2 from the centreline
C25_RibbonShapeHalfWidth == RibbonReturned => (RibbonStructure /\ RibbonOffsetHalfWidth)

\* a ribbon of 200 intervals around a corner has been returned
C25_Witness ==
    /\ RibbonReturned
    /\ ribbon.spline = CornerRoad
    /\ Len(ribbon.asset.mesh.vertices) = 402
    /\ ribbon.asset.mesh.vertices[201].perp # ribbon.asset.mesh.vertices[203].perp

\* C26: for every valid design and every seed, when the LLM path fails
\* generate_world_schema does not raise and returns a WorldSchema whose every
\* field is within the schema bounds
C26_FallbackSchemaValid ==
    (fallback_schema # <<>> /\ fallback_schema.state # "call") =>
        /\ ValidScale(fallback_schema.design.scale10)
        /\ fallback_schema.state = "returned"
        /\ ValidWorldSchema(fallback_schema.schema)

\* C27: _fallback_spec(description, seed) returns the same WorldDesignSpec for
\* the same description and seed on every call, also when two calls with
\* different seeds run interleaved in two threads
C27_DeterministicDesignFallback ==
    fallback_spec # <<>> =>
        \A t \in Threads :
            fallback_spec[t].pc = "done" =>
                fallback_spec[t].spec =
                    FallbackSpecAlone(fallback_spec[t].description, fallback_spec[t].seed)

====
